---- MODULE Spec2Model ----
(***************************************************************************)
(* A model of moviepy-fast's compositor (CompositeVideoClip) and of the    *)
(* word-line helpers of FancyText.                                         *)
(*                                                                         *)
(* Time is counted in whole seconds (the code's pos(1.0) is time 1).  A    *)
(* raster is a record [w, h, px] with px a function from <<x, y>> to one   *)
(* 8-bit channel value; all channels of a pixel are treated alike by the   *)
(* compositing code, so one channel is modelled.                           *)
(***************************************************************************)
EXTENDS Integers, Sequences, FiniteSets, TLC

VARIABLES composite, request, call

vars == <<composite, request, call>>

\* ------------------------------------------------------------------ bounds

\* Longest list of clips given to CompositeVideoClip.
MaxLayers == 2
\* Latest time a frame is requested at.
MaxT == 3
\* The size argument of the composite.
FullW == 3
FullH == 2

Times == 0..MaxT

\* Python's None, for the integer-valued attributes (end, duration, bg_color).
None == 0 - 1

Max(a, b) == IF a >= b THEN a ELSE b
Min(a, b) == IF a <= b THEN a ELSE b

\* ----------------------------------------------------------------- rasters

Coords(w, h) == (0..(w - 1)) \X (0..(h - 1))

\* No raster: the None of _cached_pil, _cached_uint8 and _cached_frame.
NoImage == [w |-> 0, h |-> 0, px |-> <<>>]

Filled(w, h, v) == [w |-> w, h |-> h, px |-> [p \in Coords(w, h) |-> v]]

\* ------------------------------------------------------------------ layers

\* A clip: content is "static" (an image clip: _cached_pil and _cached_uint8
\* set), "pil_only" (an image with _cached_pil but no _cached_uint8),
\* "dynamic" (a frame function of time) or "color" (a ColorClip); mask is
\* "none", "static" (the mask clip has _cached_pil) or "dynamic"; pos is
\* "const" (x, y at every time), "late" (x, y up to clip time 1, then x+1, y)
\* or "moving" (x + clip time, y).
Layer(id, w, h, x, y, pos, content, mask, start, end, layer_index) ==
    [id |-> id, w |-> w, h |-> h, x |-> x, y |-> y, pos |-> pos,
     content |-> content, mask |-> mask, start |-> start, end |-> end,
     layer_index |-> layer_index, color |-> 0]

\* The clips the composites of the model are built from.
LayerPool ==
    { Layer(1, 2, 1, 0, 0, "const", "static", "none", 0, None, 0),
      Layer(2, 2, 2, 0, 0, "const", "static", "none", 0, 2, 1),
      Layer(3, 1, 2, 1, 0, "const", "static", "static", 0, 3, 0),
      Layer(4, 2, 1, 0 - 1, 1, "const", "static", "none", 1, 3, 1),
      Layer(5, 2, 1, 1, 0, "late", "static", "none", 0, 3, 0),
      Layer(6, 1, 1, 0, 1, "moving", "static", "none", 0, 3, 0),
      Layer(7, 2, 2, 1, 0 - 1, "const", "dynamic", "none", 0, 3, 1),
      Layer(8, 1, 1, 0, 0, "const", "static", "dynamic", 0, None, 0),
      Layer(9, 3, 2, 0, 0, "const", "dynamic", "none", 0, None, 0),
      Layer(10, 3, 2, 0, 0, "const", "static", "static", 0, 3, 0 - 1),
      Layer(11, 1, 1, 3, 0, "const", "static", "none", 1, 2, 0),
      Layer(12, 2, 1, 2, 1, "const", "pil_only", "none", 0, 3, 0),
      Layer(13, 1, 1, 0 - 1, 0, "late", "static", "none", 0, 3, 1) }

\* clip.pos(ct)
PosAt(clip, ct) ==
    CASE clip.pos = "const" -> <<clip.x, clip.y>>
      [] clip.pos = "late" ->
            IF ct <= 1 THEN <<clip.x, clip.y>> ELSE <<clip.x + 1, clip.y>>
      [] OTHER -> <<clip.x + ct, clip.y>>

\* One channel of the clip's frame at clip time ct, at source pixel (sx, sy).
\* Clips differ in every pixel (16 values per id); a dynamic clip's frame
\* changes with time.
Pix(clip, sx, sy, ct) ==
    IF clip.content = "color" THEN clip.color
    ELSE (clip.id * 16 + sx + 4 * sy
          + (IF clip.content = "dynamic" THEN 3 * (ct % 3) ELSE 0)) % 256

\* The clip's mask at clip time ct, at source pixel (sx, sy), as 0..255.
MaskPix(clip, sx, sy, ct) ==
    LET k == IF clip.mask = "dynamic" THEN (sx + sy + ct) % 3
             ELSE (sx + sy) % 3
    IN CASE k = 0 -> 255 [] k = 1 -> 128 [] OTHER -> 0

\* clip.get_frame(ct)
FrameAt(clip, ct) ==
    [w |-> clip.w, h |-> clip.h,
     px |-> [p \in Coords(clip.w, clip.h) |-> Pix(clip, p[1], p[2], ct)]]

\* clip.mask.get_frame(ct), scaled to 0..255
MaskFrameAt(clip, ct) ==
    [w |-> clip.w, h |-> clip.h,
     px |-> [p \in Coords(clip.w, clip.h) |-> MaskPix(clip, p[1], p[2], ct)]]

\* getattr(clip, '_cached_pil', None)
CachedPil(clip) ==
    IF clip.content \in {"static", "pil_only", "color"}
    THEN FrameAt(clip, 0) ELSE NoImage

\* clip._cached_uint8
CachedUint8(clip) ==
    IF clip.content \in {"static", "color"} THEN FrameAt(clip, 0) ELSE NoImage

\* getattr(clip.mask, '_cached_pil', None)
CachedMaskPil(clip) ==
    IF clip.mask = "static" THEN MaskFrameAt(clip, 0) ELSE NoImage

\* ColorClip(size, color=bg_color)
ColorClip(size, color) ==
    [Layer(0, size[1], size[2], 0, 0, "const", "color", "none", 0, None, 0)
        EXCEPT !.color = color]

\* clip.start <= t and (clip.end is None or t < clip.end)
IsPlaying(clip, t) == clip.start <= t /\ (clip.end = None \/ t < clip.end)

\* clip.new_blit_on(t, full_w, full_h): the clip's frame, resolved position
\* and mask frame at time t.
NewBlitOn(clip, t, full_w, full_h) ==
    [img |-> FrameAt(clip, t - clip.start),
     pos |-> PosAt(clip, t - clip.start),
     mask |-> IF clip.mask = "none" THEN NoImage
              ELSE MaskFrameAt(clip, t - clip.start)]

\* -------------------------------------------------------------- clipped blit

\* A clipping that keeps the destination corner where the layer is placed,
\* without the max(0, .) of the code.
ClipRectUnclamped(cw, ch, x, y, full_w, full_h) ==
    LET src_x1 == Max(0, 0 - x)
        src_y1 == Max(0, 0 - y)
        src_x2 == Min(cw, full_w - x)
        src_y2 == Min(ch, full_h - y)
    IN [skip |-> \/ (x <= 0 - cw \/ x >= full_w \/ y <= 0 - ch \/ y >= full_h)
                 \/ (src_x2 <= src_x1 \/ src_y2 <= src_y1),
        src_x1 |-> src_x1, src_y1 |-> src_y1,
        src_x2 |-> src_x2, src_y2 |-> src_y2,
        dst_x1 |-> x, dst_y1 |-> y]

\* The clipping of a cw x ch source placed at (x, y) to a full_w x full_h
\* canvas: skip when nothing of it is inside, else the source rectangle
\* [src_x1, src_x2) x [src_y1, src_y2) and the destination corner.
ClipRect(cw, ch, x, y, full_w, full_h) ==
    LET src_x1 == Max(0, 0 - x)
        src_y1 == Max(0, 0 - y)
        src_x2 == Min(cw, full_w - x)
        src_y2 == Min(ch, full_h - y)
        dst_x1 == Max(0, x)
        dst_y1 == Max(0, y)
    IN [skip |-> \/ (x <= 0 - cw \/ x >= full_w \/ y <= 0 - ch \/ y >= full_h)
                 \/ (src_x2 <= src_x1 \/ src_y2 <= src_y1),
        src_x1 |-> src_x1, src_y1 |-> src_y1,
        src_x2 |-> src_x2, src_y2 |-> src_y2,
        dst_x1 |-> dst_x1, dst_y1 |-> dst_y1]

\* img[src_y1:src_y2, src_x1:src_x2] and PIL's img.crop((x1, y1, x2, y2))
Crop(img, r) ==
    [w |-> r.src_x2 - r.src_x1, h |-> r.src_y2 - r.src_y1,
     px |-> [p \in Coords(r.src_x2 - r.src_x1, r.src_y2 - r.src_y1) |->
                img.px[<<p[1] + r.src_x1, p[2] + r.src_y1>>]]]

InBox(p, dx, dy, w, h) ==
    p[1] >= dx /\ p[1] < dx + w /\ p[2] >= dy /\ p[2] < dy + h

\* Pillow's 8-bit blend: (dst * (255 - m) + src * m) / 255, rounded.
Blend8(dst, src, m) ==
    LET tmp == dst * (255 - m) + src * m + 128
    IN ((tmp \div 256) + tmp) \div 256

\* canvas.paste(sp, (dx, dy)) and current[dy1:dy2, dx1:dx2] = src
Paste(canvas, sp, dx, dy) ==
    [canvas EXCEPT !.px = [p \in DOMAIN canvas.px |->
        IF InBox(p, dx, dy, sp.w, sp.h)
        THEN sp.px[<<p[1] - dx, p[2] - dy>>]
        ELSE canvas.px[p]]]

\* A masked paste that ignores its mask.
PasteIgnoringMask(canvas, sp, dx, dy, mp) == Paste(canvas, sp, dx, dy)

\* canvas.paste(sp, (dx, dy), mp)
PasteMasked(canvas, sp, dx, dy, mp) ==
    [canvas EXCEPT !.px = [p \in DOMAIN canvas.px |->
        IF InBox(p, dx, dy, sp.w, sp.h)
        THEN Blend8(canvas.px[p], sp.px[<<p[1] - dx, p[2] - dy>>],
                    mp.px[<<p[1] - dx, p[2] - dy>>])
        ELSE canvas.px[p]]]

\* One blit, as it is recorded in the history of a flattening: the layer's
\* index in self.clips, the position the code resolved for it, the clip time
\* of the content used, and the canvas before and after.
BlitStep(i, fast, x, y, ct, masked, before, after) ==
    [clip |-> i, fast |-> fast, x |-> x, y |-> y, ct |-> ct,
     masked |-> masked, before |-> before, after |-> after]

\* ------------------------------------------------------------- construction

\* sorted(clips, key=lambda clip: clip.layer_index): a stable sort.
RECURSIVE InsertByLayer(_, _)
InsertByLayer(s, clip) ==
    IF s = <<>> THEN <<clip>>
    ELSE IF s[Len(s)].layer_index <= clip.layer_index THEN Append(s, clip)
    ELSE Append(InsertByLayer(SubSeq(s, 1, Len(s) - 1), clip), s[Len(s)])

RECURSIVE SortedByLayer(_)
SortedByLayer(s) ==
    IF s = <<>> THEN <<>>
    ELSE InsertByLayer(SortedByLayer(SubSeq(s, 1, Len(s) - 1)), s[Len(s)])

RECURSIVE MaxEnd(_)
MaxEnd(s) == IF Len(s) = 1 THEN s[1].end ELSE Max(s[1].end, MaxEnd(Tail(s)))

\* self.bg.get_frame_uint8(t - self.bg.start), cut or zero-padded to the
\* canvas size: a fresh array in both branches.
MakeNumpyCanvas(bg, t, full_w, full_h) ==
    LET f == FrameAt(bg, t - bg.start)
    IN IF f.h >= full_h /\ f.w >= full_w
       THEN [w |-> full_w, h |-> full_h,
             px |-> [p \in Coords(full_w, full_h) |-> f.px[p]]]
       ELSE [w |-> full_w, h |-> full_h,
             px |-> [p \in Coords(full_w, full_h) |->
                        IF p[1] < Min(f.w, full_w) /\ p[2] < Min(f.h, full_h)
                        THEN f.px[p] ELSE 0]]

\* A start that draws on the background's cached image without copying it.
StartCanvasShared(bg, t, full_w, full_h) ==
    LET bg_pil == CachedPil(bg)
    IN IF bg_pil # NoImage /\ <<bg_pil.w, bg_pil.h>> = <<full_w, full_h>>
       THEN [img |-> bg_pil, ref |-> "bg"]
       ELSE [img |-> MakeNumpyCanvas(bg, t, full_w, full_h), ref |-> "fresh"]

\* The canvas a flattening starts from and whether it is a fresh buffer
\* ("fresh") or the background's cached image itself ("bg").
StartCanvas(bg, t, full_w, full_h) ==
    LET bg_pil == CachedPil(bg)
    IN IF bg_pil # NoImage /\ <<bg_pil.w, bg_pil.h>> = <<full_w, full_h>>
       THEN [img |-> bg_pil, ref |-> "fresh"]
       ELSE [img |-> MakeNumpyCanvas(bg, t, full_w, full_h), ref |-> "fresh"]

\* The body of _precompute_compositing's loop for clip i.
PrecomputeClip(acc, i, clip, full_w, full_h, duration) ==
    LET src_pil == CachedPil(clip)
        has_mask == clip.mask # "none"
        mask_pil == IF has_mask THEN CachedMaskPil(clip) ELSE NoImage
        result == NewBlitOn(clip, clip.start, full_w, full_h)
        x == result.pos[1]
        y == result.pos[2]
        r == ClipRect(src_pil.w, src_pil.h, x, y, full_w, full_h)
        no_crop == /\ r.src_x1 = 0 /\ r.src_y1 = 0
                   /\ r.src_x2 = src_pil.w /\ r.src_y2 = src_pil.h
        sp == IF no_crop THEN src_pil ELSE Crop(src_pil, r)
        mp == IF mask_pil = NoImage THEN NoImage
              ELSE IF no_crop THEN mask_pil ELSE Crop(mask_pil, r)
        cached == CachedUint8(clip)
    IN IF src_pil = NoImage \/ (has_mask /\ mask_pil = NoImage)
       THEN [acc EXCEPT !.all_static = FALSE]
       ELSE IF PosAt(clip, 0) # PosAt(clip, 1)
       THEN [acc EXCEPT !.all_static = FALSE]
       ELSE IF r.skip THEN acc
       ELSE [all_static |-> acc.all_static,
             all_always_playing |->
                IF clip.start # 0 THEN FALSE
                ELSE IF duration # None /\ clip.end # None
                        /\ clip.end < duration THEN FALSE
                ELSE acc.all_always_playing,
             blit_pil |-> acc.blit_pil @@
                (i :> [sp |-> sp, mp |-> mp, dx |-> r.dst_x1, dy |-> r.dst_y1,
                       has_mask |-> has_mask, x |-> x, y |-> y]),
             blit_np |->
                IF cached # NoImage
                THEN acc.blit_np @@
                     (i :> [src |-> Crop(cached, r),
                            dy1 |-> r.dst_y1,
                            dy2 |-> r.dst_y1 + (r.src_y2 - r.src_y1),
                            dx1 |-> r.dst_x1,
                            dx2 |-> r.dst_x1 + (r.src_x2 - r.src_x1),
                            x |-> x, y |-> y])
                ELSE acc.blit_np]

RECURSIVE PrecomputeLoop(_, _, _, _, _, _)
PrecomputeLoop(acc, i, clips, full_w, full_h, duration) ==
    IF i > Len(clips) THEN acc
    ELSE PrecomputeLoop(
            PrecomputeClip(acc, i, clips[i], full_w, full_h, duration),
            i + 1, clips, full_w, full_h, duration)

\* The pastes that build the pre-rendered frame, in sorted(blit_pil) order.
RECURSIVE PasteBlits(_, _, _, _)
PasteBlits(st, i, n, blit_pil) ==
    IF i > n THEN st
    ELSE IF i \notin DOMAIN blit_pil THEN PasteBlits(st, i + 1, n, blit_pil)
    ELSE LET b == blit_pil[i]
             after == IF b.has_mask /\ b.mp # NoImage
                      THEN PasteMasked(st.img, b.sp, b.dx, b.dy, b.mp)
                      ELSE Paste(st.img, b.sp, b.dx, b.dy)
         IN PasteBlits(
               [st EXCEPT !.img = after,
                          !.steps = Append(@, BlitStep(i, TRUE, b.x, b.y, 0,
                                                   b.has_mask /\ b.mp # NoImage,
                                                   st.img, after))],
               i + 1, n, blit_pil)

\* Whether _precompute_compositing pre-renders one frame.
CacheDecision(pre) ==
    pre.all_static /\ pre.all_always_playing /\ DOMAIN pre.blit_pil # {}

\* A mask entry that starts at 0 whenever its layer starts.
MaskEntryFromZero(clip) ==
    [src |-> IF clip.mask # "none" THEN "own" ELSE "opaque",
     of |-> clip,
     x |-> clip.x, y |-> clip.y, pos |-> clip.pos,
     start |-> 0, end |-> clip.end,
     layer_index |-> clip.layer_index]

\* self.mask of a transparent composite: the clips of the mask composite.
MaskEntry(clip) ==
    [src |-> IF clip.mask # "none" THEN "own" ELSE "opaque",
     of |-> clip,
     x |-> clip.x, y |-> clip.y, pos |-> clip.pos,
     start |-> clip.start, end |-> clip.end,
     layer_index |-> clip.layer_index]

\* self.bg.mask: the background clip's own mask clip, which shares the
\* clip's start and end and keeps the default position and layer.
BgMaskEntry(bg) ==
    [src |-> "own", of |-> bg, x |-> 0, y |-> 0, pos |-> "const",
     start |-> bg.start, end |-> bg.end, layer_index |-> 0]

MaskClips(clips, bg, use_bgclip) ==
    LET maskclips == [i \in 1..Len(clips) |-> MaskEntry(clips[i])]
    IN IF use_bgclip /\ bg.mask # "none"
       THEN <<BgMaskEntry(bg)>> \o maskclips
       ELSE maskclips

\* CompositeVideoClip(maskclips, self.size, is_mask=True, bg_color=0.0)
NoMask == [present |-> FALSE, clips |-> <<>>, duration |-> None]

MaskComposite(maskclips) ==
    [present |-> TRUE,
     clips |-> SortedByLayer(maskclips),
     duration |-> IF maskclips = <<>> THEN None
                  ELSE IF \E i \in 1..Len(maskclips) : maskclips[i].end = None
                  THEN None ELSE MaxEnd(maskclips)]

\* A constructor call that raised.
Raised(args, exc) ==
    [error |-> exc, args |-> args, size |-> <<0, 0>>, clips |-> <<>>,
     bg |-> ColorClip(<<0, 0>>, 0), created_bg |-> FALSE,
     transparent |-> FALSE, duration |-> None, mask |-> NoMask,
     any_masks |-> FALSE, cached_frame |-> NoImage, cache_steps |-> <<>>,
     clip_blit_pil |-> <<>>, clip_blit_np |-> <<>>,
     bg_cached_pil |-> NoImage, clip_cached |-> <<>>]

\* CompositeVideoClip.__init__ with is_mask=False.  size is <<>> for None.
Construct(clips, size, bg_color, use_bgclip) ==
    LET args == [clips |-> clips, size |-> size, bg_color |-> bg_color,
                 use_bgclip |-> use_bgclip]
    IN
    IF (size = <<>> \/ use_bgclip) /\ clips = <<>>
    THEN Raised(args, "IndexError")
    ELSE
    LET size1 == IF size = <<>> THEN <<clips[1].w, clips[1].h>> ELSE size
        transparent == IF use_bgclip /\ clips[1].mask = "none" THEN FALSE
                       ELSE bg_color = None
        color == IF ~use_bgclip /\ bg_color = None THEN 0 ELSE bg_color
        bg == IF use_bgclip THEN clips[1] ELSE ColorClip(size1, color)
        sorted == SortedByLayer(IF use_bgclip THEN Tail(clips) ELSE clips)
    IN
    IF sorted = <<>> THEN Raised(args, "ValueError")
    ELSE
    LET duration == IF \E i \in 1..Len(sorted) : sorted[i].end = None
                    THEN None ELSE MaxEnd(sorted)
        pre == PrecomputeLoop(
                  [all_static |-> TRUE, all_always_playing |-> TRUE,
                   blit_pil |-> <<>>, blit_np |-> <<>>],
                  1, sorted, size1[1], size1[2], duration)
        baked == IF CacheDecision(pre)
                 THEN PasteBlits(
                        [img |-> StartCanvas(bg, 0, size1[1], size1[2]).img,
                         steps |-> <<>>],
                        1, Len(sorted), pre.blit_pil)
                 ELSE [img |-> NoImage, steps |-> <<>>]
    IN [error |-> "none", args |-> args, size |-> size1, clips |-> sorted,
        bg |-> bg, created_bg |-> ~use_bgclip,
        transparent |-> transparent, duration |-> duration,
        mask |-> IF transparent
                 THEN MaskComposite(MaskClips(sorted, bg, use_bgclip))
                 ELSE NoMask,
        any_masks |-> \E i \in 1..Len(sorted) : sorted[i].mask # "none",
        cached_frame |-> baked.img, cache_steps |-> baked.steps,
        clip_blit_pil |-> pre.blit_pil, clip_blit_np |-> pre.blit_np,
        bg_cached_pil |-> CachedPil(bg),
        clip_cached |-> [i \in 1..Len(sorted) |-> CachedPil(sorted[i])]]

\* --------------------------------------------------------------- flattening

\* The loop body of _frame_pil_canvas for clip i.
PilClip(st, i, clip, t, blit_cache, full_w, full_h) ==
    IF ~IsPlaying(clip, t) THEN st
    ELSE IF i \in DOMAIN blit_cache
    THEN LET b == blit_cache[i]
             masked == b.has_mask /\ b.mp # NoImage
             after == IF masked
                      THEN PasteMasked(st.img, b.sp, b.dx, b.dy, b.mp)
                      ELSE Paste(st.img, b.sp, b.dx, b.dy)
         IN [st EXCEPT !.img = after,
                       !.steps = Append(@, BlitStep(i, TRUE, b.x, b.y, 0,
                                                    masked, st.img, after))]
    ELSE LET result == NewBlitOn(clip, t, full_w, full_h)
             x == result.pos[1]
             y == result.pos[2]
             r == ClipRect(result.img.w, result.img.h, x, y, full_w, full_h)
             masked == result.mask # NoImage
             after == IF masked
                      THEN PasteMasked(st.img, Crop(result.img, r),
                                       r.dst_x1, r.dst_y1, Crop(result.mask, r))
                      ELSE Paste(st.img, Crop(result.img, r),
                                 r.dst_x1, r.dst_y1)
         IN IF r.skip THEN st
            ELSE [st EXCEPT !.img = after,
                            !.steps = Append(@, BlitStep(i, FALSE, x, y,
                                                 t - clip.start, masked,
                                                 st.img, after))]

\* The loop body of _frame_numpy for clip i.
NumpyClip(st, i, clip, t, np_cache, full_w, full_h) ==
    IF ~IsPlaying(clip, t) THEN st
    ELSE IF i \in DOMAIN np_cache
    THEN LET b == np_cache[i]
             after == Paste(st.img, b.src, b.dx1, b.dy1)
         IN [st EXCEPT !.img = after,
                       !.steps = Append(@, BlitStep(i, TRUE, b.x, b.y, 0,
                                                    FALSE, st.img, after))]
    ELSE LET result == NewBlitOn(clip, t, full_w, full_h)
             x == result.pos[1]
             y == result.pos[2]
             r == ClipRect(result.img.w, result.img.h, x, y, full_w, full_h)
             after == Paste(st.img, Crop(result.img, r), r.dst_x1, r.dst_y1)
         IN IF r.skip THEN st
            ELSE [st EXCEPT !.img = after,
                            !.steps = Append(@, BlitStep(i, FALSE, x, y,
                                                 t - clip.start, FALSE,
                                                 st.img, after))]

RECURSIVE PilLoop(_, _, _, _, _, _, _)
PilLoop(st, i, clips, t, blit_cache, full_w, full_h) ==
    IF i > Len(clips) THEN st
    ELSE PilLoop(PilClip(st, i, clips[i], t, blit_cache, full_w, full_h),
                 i + 1, clips, t, blit_cache, full_w, full_h)

RECURSIVE NumpyLoop(_, _, _, _, _, _, _)
NumpyLoop(st, i, clips, t, np_cache, full_w, full_h) ==
    IF i > Len(clips) THEN st
    ELSE NumpyLoop(NumpyClip(st, i, clips[i], t, np_cache, full_w, full_h),
                   i + 1, clips, t, np_cache, full_w, full_h)

\* _frame_pil_canvas(t, full_w, full_h)
FramePilCanvas(self, t) ==
    LET c == StartCanvas(self.bg, t, self.size[1], self.size[2])
    IN PilLoop([img |-> c.img, ref |-> c.ref, steps |-> <<>>, path |-> "pil"],
               1, self.clips, t, self.clip_blit_pil,
               self.size[1], self.size[2])

\* _frame_numpy(t, full_w, full_h)
FrameNumpy(self, t) ==
    NumpyLoop([img |-> MakeNumpyCanvas(self.bg, t, self.size[1], self.size[2]),
               ref |-> "fresh", steps |-> <<>>, path |-> "numpy"],
              1, self.clips, t, self.clip_blit_np,
              self.size[1], self.size[2])

\* frame_function(t) of a composite that is not a mask.
FrameOf(self, t) ==
    IF self.cached_frame # NoImage
    THEN [img |-> self.cached_frame, ref |-> "cache",
          steps |-> self.cache_steps, path |-> "cached"]
    ELSE IF self.any_masks THEN FramePilCanvas(self, t)
    ELSE FrameNumpy(self, t)

\* The frame a mask entry shows at clip time ct, as 0..255.
EntryFrame(e, ct) ==
    IF e.src = "own" THEN MaskFrameAt(e.of, ct)
    ELSE Filled(e.of.w, e.of.h, 255)

\* clip.compose_mask(mask, t): the entry's mask frame laid over the mask at
\* the entry's position, base + clip * (1 - base) where they overlap.
ComposeMask(mask, e, t) ==
    LET ct == t - e.start
        f == EntryFrame(e, ct)
        pos == PosAt(e, ct)
    IN [mask EXCEPT !.px = [p \in DOMAIN mask.px |->
          IF InBox(p, pos[1], pos[2], f.w, f.h)
          THEN LET c == f.px[<<p[1] - pos[1], p[2] - pos[2]>>]
               IN mask.px[p] + (c * (255 - mask.px[p])) \div 255
          ELSE mask.px[p]]]

RECURSIVE MaskLoop(_, _, _, _)
MaskLoop(mask, i, clips, t) ==
    IF i > Len(clips) THEN mask
    ELSE MaskLoop(IF IsPlaying(clips[i], t)
                  THEN ComposeMask(mask, clips[i], t) ELSE mask,
                  i + 1, clips, t)

\* frame_function(t) of the mask composite (is_mask).
MaskFrameOf(self, t) ==
    MaskLoop(Filled(self.size[1], self.size[2], 0), 1, self.mask.clips, t)

\* ------------------------------------------------------------ the compositor

NoRequest ==
    [kind |-> "none", t |-> 0, ret |-> NoImage, path |-> "none",
     steps |-> <<>>, ref |-> "none"]

NoCall == [fn |-> "none"]

ClipLists == UNION {[1..n -> LayerPool] : n \in 0..MaxLayers}

\* The composite as CompositeVideoClip(clips, size, bg_color, use_bgclip)
\* leaves it.
Init ==
    /\ \E clips \in ClipLists, size \in {<<>>, <<FullW, FullH>>},
          bg_color \in {None, 7}, use_bgclip \in BOOLEAN :
          composite = Construct(clips, size, bg_color, use_bgclip)
    /\ request = NoRequest
    /\ call = NoCall

\* Frames are requested at times within the clip: any time when the duration
\* is unset, else a time before it.
InClip(t) == composite.duration = None \/ t < composite.duration

\* composite.frame_function(t).  The canvas is a buffer of its own unless
\* ref says it is the background's cached image, which a paste then changes.
FrameFunction(t) ==
    /\ composite.error = "none"
    /\ InClip(t)
    /\ LET out == FrameOf(composite, t)
       IN /\ request' = [kind |-> "frame", t |-> t, ret |-> out.img,
                         path |-> out.path, steps |-> out.steps,
                         ref |-> out.ref]
          /\ composite' = [composite EXCEPT !.bg_cached_pil =
                              IF out.ref = "bg" THEN out.img ELSE @]
    /\ UNCHANGED call

\* composite.mask.frame_function(t)
MaskFrameFunction(t) ==
    /\ composite.error = "none"
    /\ composite.mask.present
    /\ InClip(t)
    /\ request' = [kind |-> "mask", t |-> t, ret |-> MaskFrameOf(composite, t),
                   path |-> "mask", steps |-> <<>>, ref |-> "fresh"]
    /\ UNCHANGED <<composite, call>>

Next ==
    \/ \E t \in Times : FrameFunction(t)
    \/ \E t \in Times : MaskFrameFunction(t)

Spec == Init /\ [][Next]_vars

\* ------------------------------------------------- the claims' vocabulary

\* A frame request has been served.
Served == composite.error = "none" /\ request.kind = "frame"

\* The reference flattening at t: the background at t, then every layer
\* playing at t, in the order of self.clips, with its content, mask and
\* position at t.
LayerOver(canvas, clip, t) ==
    LET ct == t - clip.start
        pos == PosAt(clip, ct)
    IN [canvas EXCEPT !.px = [p \in DOMAIN canvas.px |->
          IF InBox(p, pos[1], pos[2], clip.w, clip.h)
          THEN LET sx == p[1] - pos[1]
                   sy == p[2] - pos[2]
               IN IF clip.mask = "none" THEN Pix(clip, sx, sy, ct)
                  ELSE Blend8(canvas.px[p], Pix(clip, sx, sy, ct),
                              MaskPix(clip, sx, sy, ct))
          ELSE canvas.px[p]]]

RECURSIVE FlattenFrom(_, _, _, _)
FlattenFrom(canvas, i, clips, t) ==
    IF i > Len(clips) THEN canvas
    ELSE FlattenFrom(IF IsPlaying(clips[i], t)
                     THEN LayerOver(canvas, clips[i], t) ELSE canvas,
                     i + 1, clips, t)

Flattening(self, t) ==
    FlattenFrom(MakeNumpyCanvas(self.bg, t, self.size[1], self.size[2]),
                1, self.clips, t)

\* The layers the caller listed (without the background clip of use_bgclip).
ListedLayers ==
    IF composite.args.use_bgclip THEN Tail(composite.args.clips)
    ELSE composite.args.clips

\* Layer clip covers canvas pixel p at time t.
Covers(clip, p, t) ==
    LET pos == PosAt(clip, t - clip.start)
    IN IsPlaying(clip, t) /\ InBox(p, pos[1], pos[2], clip.w, clip.h)

CanvasCoords == Coords(composite.size[1], composite.size[2])

\* The layers blitted into the returned frame.
Painted == {request.steps[k].clip : k \in 1..Len(request.steps)}

\* A position that is the same at every time of the clip's lifetime.
ConstantPosition(clip) ==
    \A t \in Times :
       IsPlaying(clip, t) => PosAt(clip, t - clip.start) = PosAt(clip, 0)

\* Every layer keeps one position, as the static cache asks.
LayersKeepPosition ==
    \A i \in 1..Len(composite.clips) : ConstantPosition(composite.clips[i])

\* C1: a composite whose pre-rendered frame is set returns, at every t in
\* [0, duration), the raster of the non-cached flattening at t.  Stated for
\* the composites whose layers keep one position, so that a violation does
\* not rest on the position test of C2.
C1_CachedFrameIsFlattening ==
    (Served /\ request.path = "cached" /\ composite.duration # None
       /\ request.t < composite.duration /\ LayersKeepPosition)
    => request.ret = Flattening(composite, request.t)

\* C2: the pre-rendered frame is set only if every layer has immutable
\* content, a position that is the same at every time, and is active from
\* time 0 through the whole duration of the composite.
C2_CacheOnlyWhenAllStatic ==
    (composite.error = "none" /\ composite.cached_frame # NoImage)
    => \A i \in 1..Len(composite.clips) :
          LET clip == composite.clips[i]
          IN /\ clip.content # "dynamic" /\ clip.mask # "dynamic"
             /\ ConstantPosition(clip)
             /\ clip.start = 0
             /\ (composite.duration = None \/ clip.end >= composite.duration)

\* C3: in every flattening at t a layer contributes pixels if and only if it
\* is active at t, whichever path (cached, PIL, numpy) serves the request.
\* Stated for the composites whose layers keep one position, so that a
\* violation does not rest on the position test of C2.
C3_ContributesIffActive ==
    (Served /\ LayersKeepPosition) =>
      \A i \in 1..Len(composite.clips) :
         /\ i \in Painted => IsPlaying(composite.clips[i], request.t)
         /\ (\E p \in CanvasCoords : Covers(composite.clips[i], p, request.t))
               => i \in Painted

\* C4: at a pixel covered only by opaque active layers the output shows the
\* layer with the highest layer_index, among equal ones the one listed last.
C4_TopLayerShows ==
    Served =>
      \A p \in CanvasCoords :
         LET L == ListedLayers
             cov == {j \in 1..Len(L) : Covers(L[j], p, request.t)}
         IN (cov # {} /\ \A j \in cov : L[j].mask = "none") =>
              \E j \in cov :
                 /\ \A k \in cov :
                       \/ L[k].layer_index < L[j].layer_index
                       \/ (L[k].layer_index = L[j].layer_index /\ k <= j)
                 /\ LET pos == PosAt(L[j], request.t - L[j].start)
                    IN request.ret.px[p] =
                          Pix(L[j], p[1] - pos[1], p[2] - pos[2],
                              request.t - L[j].start)

ZeroLayers ==
    \/ ~composite.args.use_bgclip /\ composite.args.clips = <<>>
          /\ composite.args.size # <<>>
    \/ composite.args.use_bgclip /\ Len(composite.args.clips) = 1

\* C7: a composite with zero layers is constructed without error and its
\* frame at every t is the background fill.
C7_ZeroLayersGiveBackground ==
    ZeroLayers =>
      /\ composite.error = "none"
      /\ request.kind = "frame" =>
            request.ret = MakeNumpyCanvas(composite.bg, request.t,
                                          composite.size[1], composite.size[2])

\* A mask request has been served.
MaskServed == composite.error = "none" /\ request.kind = "mask"

\* Mask entry e covers canvas pixel p at time t.
EntryCovers(e, p, t) ==
    LET pos == PosAt(e, t - e.start)
    IN IsPlaying(e, t) /\ InBox(p, pos[1], pos[2], e.of.w, e.of.h)

\* Mask entries M are one per layer of C, in order: the layer's own mask or
\* an opaque one, with the layer's position, start, end and layer_index.
OnePerLayer(M, C) ==
    /\ Len(M) = Len(C)
    /\ \A i \in 1..Len(C) :
          /\ M[i].of = C[i]
          /\ M[i].src = (IF C[i].mask = "none" THEN "opaque" ELSE "own")
          /\ <<M[i].x, M[i].y, M[i].pos>> = <<C[i].x, C[i].y, C[i].pos>>
          /\ M[i].start = C[i].start /\ M[i].end = C[i].end
          /\ M[i].layer_index = C[i].layer_index
          /\ \A t \in Times : IsPlaying(M[i], t) <=> IsPlaying(C[i], t)

WithoutEntry(M, k) == SubSeq(M, 1, k - 1) \o SubSeq(M, k + 1, Len(M))

\* C8 as claimed: the mask of a transparent composite has exactly one entry
\* per colour layer, and the combined mask is 0 where no layer covers.
C8_OneMaskEntryPerLayer ==
    (composite.error = "none" /\ composite.transparent) =>
      /\ composite.mask.present
      /\ OnePerLayer(composite.mask.clips, composite.clips)
      /\ request.kind = "mask" =>
            \A p \in CanvasCoords :
               (\A i \in 1..Len(composite.clips) :
                   ~Covers(composite.clips[i], p, request.t))
               => request.ret.px[p] = 0

\* C8 as amended: one entry per colour layer, and with use_bgclip one more
\* entry, the background clip's own mask; the combined mask is 0 where no
\* entry covers.
C8_MaskEntriesAmended ==
    (composite.error = "none" /\ composite.transparent) =>
      /\ composite.mask.present
      /\ IF composite.args.use_bgclip
         THEN \E k \in 1..Len(composite.mask.clips) :
                 /\ composite.mask.clips[k].of = composite.bg
                 /\ composite.mask.clips[k].src = "own"
                 /\ composite.bg.mask # "none"
                 /\ OnePerLayer(WithoutEntry(composite.mask.clips, k),
                                composite.clips)
         ELSE OnePerLayer(composite.mask.clips, composite.clips)
      /\ request.kind = "mask" =>
            \A p \in CanvasCoords :
               (\A i \in 1..Len(composite.mask.clips) :
                   ~EntryCovers(composite.mask.clips[i], p, request.t))
               => request.ret.px[p] = 0

\* The mask of a use_bgclip composite with a masked background and a layer
\* was requested, with a pixel that an entry covers and one that none does.
C8_Witness ==
    /\ MaskServed
    /\ composite.args.use_bgclip
    /\ Len(composite.clips) >= 1
    /\ \E p \in CanvasCoords :
          /\ request.ret.px[p] # 0
          /\ \E i \in 1..Len(composite.mask.clips) :
                EntryCovers(composite.mask.clips[i], p, request.t)
    /\ \E p \in CanvasCoords :
          \A i \in 1..Len(composite.mask.clips) :
             ~EntryCovers(composite.mask.clips[i], p, request.t)

\* The caches of the compositor.
Caches(c) ==
    <<c.cached_frame, c.clip_blit_pil, c.clip_blit_np, c.bg_cached_pil,
      c.clip_cached>>

\* C9: no frame request changes the pre-rendered frame, the blit tables, the
\* background's cached image or a layer's cached raster, and a request that
\* draws draws on a fresh copy of the background.
C9_CachesWriteOnce ==
    [][/\ Caches(composite') = Caches(composite)
       /\ (request'.kind = "frame" /\ request'.path # "cached")
             => request'.ref = "fresh"]_vars

\* A request drew layers over a background that has a cached image.
C9_Witness ==
    /\ Served
    /\ request.path = "pil"
    /\ request.steps # <<>>
    /\ composite.bg_cached_pil # NoImage
    /\ request.ret # composite.bg_cached_pil

\* ------------------------------------------------- the clipped blit alone

\* Largest side of the layer placed, and largest offset of its corner from
\* the canvas origin in each direction.
MaxSide == 3
MaxOff == 4

NoComposite == [error |-> "unbuilt"]

\* A w x h layer at integer position (x, y), with or without a mask, whose
\* content is an image (pre-converted) or a video (converted at each t).
BlitClip(w, h, x, y, content, mask) ==
    Layer(14, w, h, x, y, "const", content, mask, 0, None, 0)

BlitCanvas == Filled(FullW, FullH, 7)

BlitStart == [img |-> BlitCanvas, ref |-> "fresh", steps |-> <<>>, path |-> "blit"]

InitBlit ==
    /\ composite = NoComposite
    /\ request = NoRequest
    /\ \E w \in 1..MaxSide, h \in 1..MaxSide,
          x \in (0 - MaxOff)..MaxOff, y \in (0 - MaxOff)..MaxOff,
          content \in {"static", "dynamic"}, mask \in {"none", "static"} :
          call = [fn |-> "blit", clip |-> BlitClip(w, h, x, y, content, mask),
                  path |-> "none", out |-> BlitCanvas, wrote |-> 0]

Blitted(path, st) ==
    /\ call' = [call EXCEPT !.path = path, !.out = st.img,
                            !.wrote = Len(st.steps)]
    /\ UNCHANGED <<composite, request>>

\* The table entries _precompute_compositing makes for the layer alone.
BlitTables(clip) ==
    PrecomputeClip([all_static |-> TRUE, all_always_playing |-> TRUE,
                    blit_pil |-> <<>>, blit_np |-> <<>>],
                   1, clip, FullW, FullH, None)

\* _precompute_compositing, then the fast path of _frame_pil_canvas
BlitPrecomputedPil ==
    /\ call.fn = "blit" /\ call.path = "none"
    /\ call.clip.content = "static"
    /\ Blitted("precomputed_pil",
               PilClip(BlitStart, 1, call.clip, 0,
                       BlitTables(call.clip).blit_pil, FullW, FullH))

\* _precompute_compositing, then the fast path of _frame_numpy
BlitPrecomputedNumpy ==
    /\ call.fn = "blit" /\ call.path = "none"
    /\ call.clip.content = "static" /\ call.clip.mask = "none"
    /\ Blitted("precomputed_numpy",
               NumpyClip(BlitStart, 1, call.clip, 0,
                         BlitTables(call.clip).blit_np, FullW, FullH))

\* the fallback of _frame_pil_canvas
BlitFallbackPil ==
    /\ call.fn = "blit" /\ call.path = "none"
    /\ call.clip.content = "dynamic"
    /\ Blitted("fallback_pil",
               PilClip(BlitStart, 1, call.clip, 0, <<>>, FullW, FullH))

\* the fallback of _frame_numpy
BlitFallbackNumpy ==
    /\ call.fn = "blit" /\ call.path = "none"
    /\ call.clip.content = "dynamic" /\ call.clip.mask = "none"
    /\ Blitted("fallback_numpy",
               NumpyClip(BlitStart, 1, call.clip, 0, <<>>, FullW, FullH))

NextBlit ==
    \/ BlitPrecomputedPil
    \/ BlitPrecomputedNumpy
    \/ BlitFallbackPil
    \/ BlitFallbackNumpy

SpecBlit == InitBlit /\ [][NextBlit]_vars

\* C6: for every layer size and integer position the clipped blit writes
\* only inside the canvas, from a source rectangle inside the layer and of
\* the size of the destination rectangle, and canvas pixel (dx, dy) receives
\* source pixel (dx - x, dy - y), on the precomputed, PIL and numpy paths; a
\* layer entirely outside the canvas writes nothing.
C6_ClippedBlit ==
    (call.fn = "blit" /\ call.path # "none") =>
      LET clip == call.clip
          r == ClipRect(clip.w, clip.h, clip.x, clip.y, FullW, FullH)
          outside == \/ clip.x + clip.w <= 0 \/ clip.x >= FullW
                     \/ clip.y + clip.h <= 0 \/ clip.y >= FullH
      IN /\ outside => (r.skip /\ call.out = BlitCanvas /\ call.wrote = 0)
         /\ ~outside =>
               /\ ~r.skip /\ call.wrote = 1
               /\ 0 <= r.src_x1 /\ r.src_x1 < r.src_x2 /\ r.src_x2 <= clip.w
               /\ 0 <= r.src_y1 /\ r.src_y1 < r.src_y2 /\ r.src_y2 <= clip.h
               /\ 0 <= r.dst_x1 /\ r.dst_x1 + (r.src_x2 - r.src_x1) <= FullW
               /\ 0 <= r.dst_y1 /\ r.dst_y1 + (r.src_y2 - r.src_y1) <= FullH
               /\ r.dst_x1 - r.src_x1 = clip.x
               /\ r.dst_y1 - r.src_y1 = clip.y
         /\ \A p \in Coords(FullW, FullH) :
               call.out.px[p] =
                  IF ~InBox(p, clip.x, clip.y, clip.w, clip.h)
                  THEN BlitCanvas.px[p]
                  ELSE IF clip.mask = "none"
                  THEN Pix(clip, p[1] - clip.x, p[2] - clip.y, 0)
                  ELSE Blend8(BlitCanvas.px[p],
                              Pix(clip, p[1] - clip.x, p[2] - clip.y, 0),
                              MaskPix(clip, p[1] - clip.x, p[2] - clip.y, 0))

\* A layer hanging over the canvas's top-left corner and not reaching its
\* right edge was blitted: it was cropped on both axes.
C6_Witness ==
    /\ call.fn = "blit" /\ call.path = "fallback_numpy"
    /\ call.clip.x < 0 /\ call.clip.y < 0
    /\ call.clip.x + call.clip.w < FullW
    /\ call.out # BlitCanvas

\* ------------------------------------------------------- the line packer

\* Most words in a list, widest word, largest max_words and max_width_px.
MaxWords == 4
MaxWordPx == 4
MaxWordsPerLine == 3
MaxLinePx == 8

\* A word is its rendered width; a space is one pixel wide.
RECURSIVE TextWidth(_)
TextWidth(line) ==
    IF line = <<>> THEN 0
    ELSE IF Len(line) = 1 THEN line[1]
    ELSE line[1] + 1 + TextWidth(Tail(line))

\* A loop body that closes a line one word before the word-count limit.
GroupStepAtLimit(st, word, max_words, max_width_px) ==
    LET candidate == Append(st.current, word)
    IN IF Len(candidate) >= max_words
       THEN [lines |-> IF st.current # <<>> THEN Append(st.lines, st.current)
                       ELSE st.lines,
             current |-> <<word>>, width_breaks |-> st.width_breaks]
       ELSE IF TextWidth(candidate) > max_width_px /\ st.current # <<>>
       THEN [lines |-> Append(st.lines, st.current),
             current |-> <<word>>, width_breaks |-> st.width_breaks + 1]
       ELSE [st EXCEPT !.current = candidate]

\* A loop body that closes a line on the word count alone.
GroupStepByCount(st, word, max_words, max_width_px) ==
    LET candidate == Append(st.current, word)
    IN IF Len(candidate) > max_words
       THEN [lines |-> IF st.current # <<>> THEN Append(st.lines, st.current)
                       ELSE st.lines,
             current |-> <<word>>, width_breaks |-> st.width_breaks]
       ELSE [st EXCEPT !.current = candidate]

\* The loop body of _group_words_into_lines; width_breaks counts the breaks
\* the pixel-width limit made.
GroupStep(st, word, max_words, max_width_px) ==
    LET candidate == Append(st.current, word)
    IN IF Len(candidate) > max_words
       THEN [lines |-> IF st.current # <<>> THEN Append(st.lines, st.current)
                       ELSE st.lines,
             current |-> <<word>>, width_breaks |-> st.width_breaks]
       ELSE IF TextWidth(candidate) > max_width_px /\ st.current # <<>>
       THEN [lines |-> Append(st.lines, st.current),
             current |-> <<word>>, width_breaks |-> st.width_breaks + 1]
       ELSE [st EXCEPT !.current = candidate]

RECURSIVE GroupLoop(_, _, _, _)
GroupLoop(st, words, max_words, max_width_px) ==
    IF words = <<>> THEN st
    ELSE GroupLoop(GroupStep(st, Head(words), max_words, max_width_px),
                   Tail(words), max_words, max_width_px)

\* _group_words_into_lines(words, pil_font, max_words, max_width_px)
GroupWordsIntoLines(words, max_words, max_width_px) ==
    LET st == GroupLoop([lines |-> <<>>, current |-> <<>>, width_breaks |-> 0],
                        words, max_words, max_width_px)
    IN [lines |-> IF st.current # <<>> THEN Append(st.lines, st.current)
                  ELSE st.lines,
        width_breaks |-> st.width_breaks]

InitLines ==
    /\ composite = NoComposite
    /\ request = NoRequest
    /\ \E n \in 1..MaxWords :
          \E words \in [1..n -> 1..MaxWordPx] :
             \E max_words \in 1..MaxWordsPerLine, max_width_px \in 1..MaxLinePx :
                call = [fn |-> "lines", words |-> words, max_words |-> max_words,
                        max_width_px |-> max_width_px, done |-> FALSE,
                        lines |-> <<>>, width_breaks |-> 0]

PackLines ==
    /\ call.fn = "lines" /\ ~call.done
    /\ LET out == GroupWordsIntoLines(call.words, call.max_words,
                                      call.max_width_px)
       IN call' = [call EXCEPT !.done = TRUE, !.lines = out.lines,
                               !.width_breaks = out.width_breaks]
    /\ UNCHANGED <<composite, request>>

NextLines == PackLines

SpecLines == InitLines /\ [][NextLines]_vars

RECURSIVE Concat(_)
Concat(lines) == IF lines = <<>> THEN <<>> ELSE Head(lines) \o Concat(Tail(lines))

CeilDiv(n, m) == (n + m - 1) \div m

\* C10: for a non-empty word list and max_words >= 1 the lines returned are
\* all non-empty, hold at most max_words words each, and concatenate in
\* order to the input; there are at least ceil(words / max_words) lines, and
\* exactly that many when the pixel-width limit broke no line.
C10_LinePacker ==
    (call.fn = "lines" /\ call.done) =>
      /\ \A k \in 1..Len(call.lines) :
            call.lines[k] # <<>> /\ Len(call.lines[k]) <= call.max_words
      /\ Concat(call.lines) = call.words
      /\ Len(call.lines) >= CeilDiv(Len(call.words), call.max_words)
      /\ call.width_breaks = 0 =>
            Len(call.lines) = CeilDiv(Len(call.words), call.max_words)

\* A list was packed where both limits closed a line.
C10_Witness ==
    /\ call.fn = "lines" /\ call.done
    /\ call.width_breaks > 0
    /\ \E k \in 1..Len(call.lines) : Len(call.lines[k]) = call.max_words
    /\ Len(call.lines) > CeilDiv(Len(call.words), call.max_words)
    /\ call.max_words > 1

\* ------------------------------------------- the word-by-word line clips

\* Python floats at reduced precision: a float is a whole number of units of
\* 2^-GridBits whose significand has at most MantBits bits, and every
\* operation rounds its exact result to the nearest such number, ties to even.
MantBits == 4
GridBits == 8
\* Longest text duration, in seconds.
MaxDuration == 3

RECURSIVE Pow2(_)
Pow2(n) == IF n = 0 THEN 1 ELSE 2 * Pow2(n - 1)

FUnit == Pow2(GridBits)

\* The spacing of the floats around q units.
RECURSIVE FStep(_, _)
FStep(q, step) ==
    IF q < Pow2(MantBits) * step THEN step ELSE FStep(q, 2 * step)

\* The float nearest to a / b units (a >= 0, b > 0).
FRoundPos(a, b) ==
    LET d == b * FStep(a \div b, 1)
        m == a \div d
        r == a - m * d
    IN IF 2 * r > d \/ (2 * r = d /\ m % 2 = 1)
       THEN (m + 1) * (d \div b) ELSE m * (d \div b)

\* The float nearest to a / b units (b > 0), of either sign.
FRound(a, b) == IF a < 0 THEN 0 - FRoundPos(0 - a, b) ELSE FRoundPos(a, b)

Representable(v) == FRound(v, 1) = v

FromInt(n) == n * FUnit
FMul(x, y) == FRound(x * y, FUnit)
FDiv(x, y) == FRound(x * FUnit, y)
FAdd(x, y) == FRound(x + y, 1)
FSub(x, y) == FRound(x - y, 1)
\* np.clip(x, lo, hi)
FClip(x, lo, hi) == Max(lo, Min(hi, x))
\* int(x) of a float x >= 0
IntOf(x) == x \div FUnit

\* The literals 0.9 and 0.05
F09 == FRound(9 * FUnit, 10)
F005 == FRound(5 * FUnit, 100)

\* An index that is not held at the last word.
HighlightIndexUnclamped(t, wd, n) == IntOf(FDiv(t, wd))

\* idx = min(int(t / _wd), _n - 1)
HighlightIndex(t, wd, n) == Min(IntOf(FDiv(t, wd)), n - 1)

\* VideoClip(duration=line_dur).with_start(line_start): the clip of one line,
\* of n words, with the per-word duration its frame functions captured.
\* clip.mask and clip.pos of a clip that was given neither.
NoMaskClip == [start |-> None, duration |-> None, is_mask |-> FALSE]
NoPosition == <<"unset", "unset">>

\* A line clip that is returned without its mask.
LineClipWithoutMask(line_start, line_dur, n, word_dur) ==
    [start |-> line_start, duration |-> line_dur,
     end |-> FAdd(line_start, line_dur), n |-> n, wd |-> word_dur,
     position |-> <<"center", "y_pos">>, mask |-> NoMaskClip]

\* Lines 168-177: the line clip, started at line_start and placed at
\* ("center", y_pos), and its mask clip of the same start and duration.
LineClip(line_start, line_dur, n, word_dur) ==
    [start |-> line_start, duration |-> line_dur,
     end |-> FAdd(line_start, line_dur), n |-> n, wd |-> word_dur,
     position |-> <<"center", "y_pos">>,
     mask |-> [start |-> line_start, duration |-> line_dur,
               is_mask |-> TRUE]]

\* The loop of create_word_fancytext over the lines: word_idx words came
\* before lines[k].
RECURSIVE LineClips(_, _, _, _, _)
LineClips(lines, k, word_idx, start_offset, word_dur) ==
    IF k > Len(lines) THEN <<>>
    ELSE LET n_words_in_line == Len(lines[k])
             line_start == FAdd(start_offset, FMul(FromInt(word_idx), word_dur))
             line_dur == FMul(FromInt(n_words_in_line), word_dur)
         IN <<LineClip(line_start, line_dur, n_words_in_line, word_dur)>>
            \o LineClips(lines, k + 1, word_idx + n_words_in_line,
                         start_offset, word_dur)

\* create_word_fancytext(text, duration, width, ...), of the words of text;
\* max_line_px is width - 80.
CreateWordFancytext(words, duration, max_words_per_line, max_line_px) ==
    IF words = <<>> THEN <<>>
    ELSE LET total_words == Len(words)
             speaking_dur == FMul(duration, F09)
             start_offset == FMul(duration, F005)
             word_dur == FDiv(speaking_dur, FromInt(total_words))
             lines == GroupWordsIntoLines(words, max_words_per_line,
                                          max_line_px).lines
         IN LineClips(lines, 1, 0, start_offset, word_dur)

InitWords ==
    /\ composite = NoComposite
    /\ request = NoRequest
    /\ \E n \in 0..MaxWords, wpx \in {1, MaxWordPx},
          max_words \in 1..MaxWordsPerLine, max_line_px \in {MaxWordPx, MaxLinePx},
          d \in 1..MaxDuration :
          call = [fn |-> "fancytext",
                  words |-> [i \in 1..n |-> wpx],
                  duration |-> FromInt(d),
                  clips |-> CreateWordFancytext([i \in 1..n |-> wpx], FromInt(d),
                                                max_words, max_line_px),
                  line |-> 0, t |-> 0, idx |-> 0]

\* _make_frame(t) and _make_mask_frame(t) of line clip k, at a time t of the
\* clip's own span [0, duration).
MakeFrame(k, t) ==
    /\ t < call.clips[k].duration /\ Representable(t)
    /\ call' = [call EXCEPT !.line = k, !.t = t,
                            !.idx = HighlightIndex(t, call.clips[k].wd,
                                                   call.clips[k].n)]
    /\ UNCHANGED <<composite, request>>

\* The first frame asked of a line clip, at any time of its span.
FirstFrame ==
    /\ call.fn = "fancytext" /\ call.line = 0
    /\ \E k \in 1..Len(call.clips) :
          \E t \in 0..(call.clips[k].duration - 1) : MakeFrame(k, t)

\* A later frame of the same line clip, up to two float steps later.
NextFrame ==
    /\ call.fn = "fancytext" /\ call.line # 0
    /\ \E t \in (call.t + 1)..(call.t + 2 * FStep(call.t, 1)) :
          MakeFrame(call.line, t)

NextWords == FirstFrame \/ NextFrame

SpecWords == InitWords /\ [][NextWords]_vars

\* The quotient t / wd as the exact rational arithmetic has it: floor(t / wd).
ExactFloor(t, wd) == t \div wd

\* C11: the highlight index selected at a time t of a line's span is
\* min(floor(t / word_duration), N - 1) with the quotient the program
\* computes, which is never more than one float rounding away from the exact
\* floor; it lies in 0..N-1, so the lookup stays inside the N variants, and
\* it does not decrease when t grows.
C11_HighlightIndex ==
    [][(call'.fn = "fancytext" /\ call'.line # 0) =>
         LET c == call'.clips[call'.line]
         IN /\ call'.idx = Min(IntOf(FDiv(call'.t, c.wd)), c.n - 1)
            /\ call'.idx \in 0..(c.n - 1)
            /\ call'.idx \in {Min(ExactFloor(call'.t, c.wd), c.n - 1),
                              Min(ExactFloor(call'.t, c.wd) + 1, c.n - 1)}
            /\ (call.line = call'.line /\ call.t <= call'.t)
                  => call.idx <= call'.idx]_vars

\* A frame was asked at a time of the span whose quotient by the word
\* duration rounds up to N: the last word's variant was returned.
C11_Witness ==
    /\ call.fn = "fancytext" /\ call.line # 0
    /\ LET c == call.clips[call.line]
       IN /\ c.n > 1
          /\ IntOf(FDiv(call.t, c.wd)) = c.n
          /\ call.idx = c.n - 1

\* The literal 0.95
F095 == FRound(95 * FUnit, 100)

\* C12: for a text of W >= 1 words and duration D the per-word duration is
\* 0.9 x D / W, the first line clip starts at 0.05 x D, each line clip lasts
\* its word count times the per-word duration, every following line clip
\* starts exactly at the end of the one before it, and the last line clip
\* ends at 0.95 x D.
C12_LineTiming ==
    (call.fn = "fancytext" /\ call.words # <<>>) =>
      LET clips == call.clips
          D == call.duration
          wd == FDiv(FMul(F09, D), FromInt(Len(call.words)))
      IN /\ clips # <<>>
         /\ clips[1].start = FMul(F005, D)
         /\ \A k \in 1..Len(clips) :
               /\ clips[k].wd = wd
               /\ clips[k].duration = FMul(FromInt(clips[k].n), wd)
         /\ \A k \in 1..(Len(clips) - 1) : clips[k + 1].start = clips[k].end
         /\ clips[Len(clips)].end = FMul(F095, D)

\* ------------------------------------------------- the effects on a frame

\* Size of the frames the effects are applied to.
FxW == 2
FxH == 1

FxCoords == Coords(FxW, FxH)

\* An RGBA pixel: one colour value c standing for the three colour channels,
\* which every effect treats alike, and the alpha a.
Rgba(c, a) == [c |-> c, a |-> a]

\* np.array(img): the image as the array of its pixels, each worked out
\* once.
RECURSIVE RasterOf(_, _)
RasterOf(f, todo) ==
    LET p == CHOOSE q \in todo : TRUE
    IN IF todo = {p} THEN p :> f[p]
       ELSE (p :> f[p]) @@ RasterOf(f, todo \ {p})

Raster(f) == RasterOf(f, FxCoords)

\* The images F makes of the images S: one step of a pipeline after another.
Then(S, F(_)) == {F(s) : s \in S}

\* A frame filled with one pixel value, and a mask filled with one value.
FxFilled(v) == [p \in FxCoords |-> v]

\* Pillow's division by 255 of a value below 65536, rounded.
Div255(v) == ((v \div 256) + v) \div 256

\* ImageChops.invert and ImageChops.multiply on "L" images
Invert(m) == [p \in FxCoords |-> 255 - m[p]]
Multiply(m1, m2) ==
    [p \in FxCoords |-> Div255(m1[p] * m2[p] + 128)]

\* ImageChops.offset(m, dx, dy): the image shifted, wrapping around.
Offset(m, dx, dy) ==
    [p \in FxCoords |-> m[<<(p[1] - dx) % FxW, (p[2] - dy) % FxH>>]]

\* text_mask.filter(ImageFilter.MinFilter(size=ks)): the least value of the
\* ks x ks window around each pixel, the image's edge repeated beyond it.
MinFilter(m, ks) ==
    LET near(p) == {q \in FxCoords :
                       /\ q[1] >= p[1] - (ks \div 2) /\ q[1] <= p[1] + (ks \div 2)
                       /\ q[2] >= p[2] - (ks \div 2) /\ q[2] <= p[2] + (ks \div 2)}
    IN [p \in FxCoords |->
                 CHOOSE v \in {m[q] : q \in near(p)} :
                    \A q \in near(p) : v <= m[q]]

\* One pixel of Image.alpha_composite(dst, src), as Pillow computes it with
\* 7 bits of precision.
CompositePixel(dst, src) ==
    IF src.a = 0 THEN dst
    ELSE IF dst.a = 0 THEN src
    ELSE LET blend == dst.a * (255 - src.a)
             outa255 == src.a * 255 + blend
             coef1 == (src.a * 255 * 255 * 128) \div outa255
             coef2 == 255 * 128 - coef1
             tmp == src.c * coef1 + dst.c * coef2 + 128 * 128
         IN Rgba(Div255(tmp) \div 128, Div255(outa255 + 128))

\* img.alpha_composite(layer), the layer of one colour with the alpha given.
AlphaComposite(img, color, alpha) ==
    [p \in FxCoords |-> CompositePixel(img[p], Rgba(color, alpha[p]))]

\* max(0.0, min(1.0, opacity)), opacities counted in sixteenths.
ClampOpacity(opacity) == Max(0, Min(16, opacity))

\* m.filter(ImageFilter.GaussianBlur(radius)): every pixel becomes a weighted
\* mean of the image's pixels, so a value between the least and the greatest
\* of them; soft says which, pixel by pixel.
GaussianBlur(m, soft) ==
    LET lo == CHOOSE v \in {m[q] : q \in FxCoords} : \A q \in FxCoords : v <= m[q]
        hi == CHOOSE v \in {m[q] : q \in FxCoords} : \A q \in FxCoords : v >= m[q]
    IN [p \in FxCoords |-> FClip(soft[p], lo, hi)]

\* An inner shadow that is not clipped to the glyph.
FxInnerShadowUnclipped(img, text_mask, clip_mask, color, offset, blur, opacity, soft) ==
    LET shifted0 == Offset(Invert(text_mask), offset[1], offset[2])
        shifted == IF blur > 0 THEN GaussianBlur(shifted0, soft) ELSE shifted0
        opa == ClampOpacity(opacity)
        alpha == [p \in FxCoords |->
                            (Min(510, 3 * shifted[p]) * opa) \div 32]
    IN AlphaComposite(img, color, alpha)

\* _fx_inner_shadow(img, text_mask, clip_mask, color, offset, blur, opacity)
FxInnerShadow(img, text_mask, clip_mask, color, offset, blur, opacity, soft) ==
    LET inv == Invert(text_mask)
        shifted0 == Offset(inv, offset[1], offset[2])
        shifted == IF blur > 0 THEN GaussianBlur(shifted0, soft) ELSE shifted0
        clipped == Multiply(shifted, clip_mask)
        opa == ClampOpacity(opacity)
        alpha == [p \in FxCoords |->
                            (Min(510, 3 * clipped[p]) * opa) \div 32]
    IN AlphaComposite(img, color, alpha)

\* _fx_inner_glow(img, text_mask, clip_mask, color, size, opacity)
FxInnerGlow(img, text_mask, clip_mask, color, size, opacity, soft) ==
    LET glow == Multiply(GaussianBlur(Invert(text_mask), soft), clip_mask)
        opa == ClampOpacity(opacity)
        alpha == [p \in FxCoords |->
                            (Min(255, 2 * glow[p]) * opa) \div 16]
    IN AlphaComposite(img, color, alpha)

\* The light direction of a gradient at 0 and at 90 degrees.
CosOf(angle_deg) == IF angle_deg = 0 THEN FromInt(1) ELSE 0
SinOf(angle_deg) == IF angle_deg = 0 THEN 0 ELSE FromInt(1)

\* t of _create_linear_gradient at pixel p of a width x height image.
GradientT(p, width, height, angle_deg) ==
    LET X == FSub(FromInt(p[1]), FDiv(FromInt(width), FromInt(2)))
        Y == FSub(FromInt(p[2]), FDiv(FromInt(height), FromInt(2)))
        proj == FAdd(FMul(X, CosOf(angle_deg)), FMul(Y, SinOf(angle_deg)))
        max_proj == FAdd(FDiv(FMul(CosOf(angle_deg), FromInt(width)), FromInt(2)),
                         FDiv(FMul(SinOf(angle_deg), FromInt(height)), FromInt(2)))
    IN FClip(FDiv(FAdd(FDiv(proj, Max(max_proj, FromInt(1))), FromInt(1)),
                  FromInt(2)),
             0, FromInt(1))

\* The loop of _create_linear_gradient over the segments i..n-2, at a pixel
\* whose gradient parameter is t; colors is indexed from 1.
RECURSIVE GradientSegments(_, _, _, _)
GradientSegments(result, i, colors, t) ==
    LET n == Len(colors)
        t0 == FDiv(FromInt(i), FromInt(n - 1))
        t1 == FDiv(FromInt(i + 1), FromInt(n - 1))
        span == FSub(t1, t0)
        mask == t >= t0 /\ t <= t1
        seg_t == IF mask THEN FClip(FDiv(FSub(t, t0), span), 0, FromInt(1)) ELSE 0
        val == FAdd(FMul(FRound(FromInt(colors[i + 1]), 1),
                         FSub(FromInt(1), seg_t)),
                    FMul(FRound(FromInt(colors[i + 2]), 1), seg_t))
    IN IF i > n - 2 THEN result
       ELSE IF span <= 0 THEN GradientSegments(result, i + 1, colors, t)
       ELSE GradientSegments(
               IF mask THEN IntOf(FClip(val, 0, FromInt(255))) ELSE result,
               i + 1, colors, t)

\* _create_linear_gradient(width, height, colors, angle_deg): the colour of
\* the gradient at pixel p; its alpha is 255.
CreateLinearGradient(p, width, height, colors, angle_deg) ==
    GradientSegments(0, 0,
                     IF Len(colors) < 2 THEN colors \o colors ELSE colors,
                     GradientT(p, width, height, angle_deg))

\* img.alpha_composite(layer)
AlphaCompositeImage(img, layer) ==
    [p \in FxCoords |-> CompositePixel(img[p], layer[p])]

\* g_arr of _fx_gradient_overlay at pixel p of a width x height image
\* whose mask is mask_value there: the gradient with the alpha
\* mask_arr * 255 * opa.
GradientLayerPixel(p, width, height, mask_value, colors, angle, opacity) ==
    Rgba(CreateLinearGradient(p, width, height, colors, angle),
         Min(255, (mask_value * ClampOpacity(opacity)) \div 16))

\* _fx_gradient_overlay(img, text_mask, colors, angle, opacity)
FxGradientOverlay(img, text_mask, colors, angle, opacity) ==
    AlphaCompositeImage(img,
       [p \in FxCoords |->
                  GradientLayerPixel(p, FxW, FxH, text_mask[p], colors, angle,
                                     opacity)])

\* hi and sh of _fx_bevel_emboss before the antialias blur, in 255ths: bump
\* is the height-map difference after blur, contrast and clip to [-1, 1].
BevelIntensity(text_mask, style, bump) ==
    [p \in FxCoords |->
        LET hi == FClip(bump[p], 0, 255)
            sh == FClip(0 - bump[p], 0, 255)
            area == IF style = "inner_bevel" THEN Min(510, 3 * text_mask[p])
                    ELSE IF style = "outer_bevel"
                    THEN Min(510, 3 * (255 - text_mask[p]))
                    ELSE 510
        IN [hi |-> (hi * area) \div 510, sh |-> (sh * area) \div 510]]

\* The blurred alpha without the hard clip.
BevelAlphaUnclipped(text_mask, style, blurred) == blurred

\* h_alpha and s_alpha of _fx_bevel_emboss after the blur and the hard clip.
BevelAlpha(text_mask, style, blurred) ==
    [p \in FxCoords |->
        IF style = "inner_bevel" THEN (blurred[p] * text_mask[p]) \div 255
        ELSE IF style = "outer_bevel"
        THEN (blurred[p] * (255 - text_mask[p])) \div 255
        ELSE blurred[p]]

\* _fx_bevel_emboss(img, text_mask, style, depth, angle, highlight_color,
\* shadow_color, highlight_opacity, shadow_opacity, soften): depth, angle and
\* soften shape the bump map and the blurs, which bump and soft stand for.
FxBevelEmboss(img, text_mask, style, highlight_color, shadow_color, highlight_opacity, shadow_opacity, bump, soft) ==
    LET inten == BevelIntensity(text_mask, style, bump)
        h_opa == ClampOpacity(highlight_opacity)
        s_opa == ClampOpacity(shadow_opacity)
        h_alpha == [p \in FxCoords |-> (inten[p].hi * h_opa) \div 16]
        s_alpha == [p \in FxCoords |-> (inten[p].sh * s_opa) \div 16]
    IN AlphaComposite(
          AlphaComposite(img, highlight_color,
                         BevelAlpha(text_mask, style,
                                    GaussianBlur(h_alpha, soft))),
          shadow_color,
          BevelAlpha(text_mask, style, GaussianBlur(s_alpha, soft)))

\* _blend_rgb(base, overlay, mode) at one pixel
BlendRgb(b, o, mode) ==
    IF mode = "multiply" THEN (b * o) \div 255
    ELSE IF mode = "screen" THEN 255 - ((255 - b) * (255 - o)) \div 255
    ELSE IF mode = "overlay"
    THEN (IF 2 * b < 255 THEN (2 * b * o) \div 255
          ELSE 255 - (2 * (255 - b) * (255 - o)) \div 255)
    ELSE o

\* The texture arguments: texture_image, the uniform colour of the image
\* given or None; texture_path, "none" or "given"; and what Image.open finds
\* at the path, the uniform colour of the file or None when it cannot be
\* opened.
TextureSource(image, path, file) ==
    [image |-> image, path |-> path, file |-> file]

\* A texture step that paints black where it finds no texture.
FxTextureOrBlack(img, text_mask, source, opacity, blend_mode) ==
    LET tex == IF source.image # None THEN source.image
               ELSE IF source.path = "none" \/ source.file = None THEN 0
               ELSE source.file
        opa == ClampOpacity(opacity)
    IN [p \in FxCoords |->
          LET factor == text_mask[p] * opa
              blended == BlendRgb(img[p].c, tex, blend_mode)
          IN Rgba((img[p].c * (4080 - factor) + blended * factor) \div 4080,
                  img[p].a)]

\* _fx_texture(img, text_mask, path, scale, opacity, blend_mode,
\* texture_image), for a texture of one colour, which scaling and tiling
\* leave as it is.
FxTexture(img, text_mask, source, opacity, blend_mode) ==
    LET tex == IF source.image # None THEN source.image ELSE source.file
        opa == ClampOpacity(opacity)
    IN IF source.image = None /\ (source.path = "none" \/ source.file = None)
       THEN img
       ELSE [p \in FxCoords |->
               LET factor == text_mask[p] * opa
                   blended == BlendRgb(img[p].c, tex, blend_mode)
               IN Rgba((img[p].c * (4080 - factor) + blended * factor)
                          \div 4080,
                       img[p].a)]

\* The default stops of _fx_chrome (their first channel) and the default
\* gradient_overlay_colors (their second channel).
ChromeColors == <<255, 210, 100, 245, 120, 250, 80, 230, 60>>
GradientOverlayColors == <<215, 140>>

\* One effect applied to st.img, entered in the log of the pipeline with
\* the boundary mask it was given and whether that is the eroded mask.
Applied(st, fx, eroded, mask, img) ==
    [img |-> Raster(img),
     log |-> Append(st.log,
                    [fx |-> fx, eroded |-> eroded, mask |-> Raster(mask)])]

\* The one image a pipeline of steps ends with.
Only(S) == CHOOSE s \in S : TRUE

\* A chrome that bevels before it paints its gradient.
FxChromeBevelFirst(st, text_mask, fill_mask, eroded, opacity, bump, soft) ==
    LET opa == ClampOpacity(opacity)
        bevel(s) ==
           Applied(s, "chrome_bevel", FALSE, text_mask,
                   FxBevelEmboss(s.img, text_mask, "inner_bevel", 255, 20,
                                 Min(16, opa + 8), (3 * opa) \div 4, bump,
                                 soft))
        gradient(s) ==
           Applied(s, "chrome_gradient", eroded, fill_mask,
                   FxGradientOverlay(s.img, fill_mask, ChromeColors, 90, opa))
    IN Only(Then(Then({st}, bevel), gradient))

\* _fx_chrome(img, text_mask, fill_mask=fill_mask, colors, opacity)
FxChrome(st, text_mask, fill_mask, eroded, opacity, bump, soft) ==
    LET opa == ClampOpacity(opacity)
        gradient(s) ==
           Applied(s, "chrome_gradient", eroded, fill_mask,
                   FxGradientOverlay(s.img, fill_mask, ChromeColors, 90, opa))
        bevel(s) ==
           Applied(s, "chrome_bevel", FALSE, text_mask,
                   FxBevelEmboss(s.img, text_mask, "inner_bevel", 255, 20,
                                 Min(16, opa + 8), (3 * opa) \div 4, bump,
                                 soft))
    IN Only(Then(Then({st}, gradient), bevel))

\* The kernel size of the erosion.
ErosionSize(stroke_width) ==
    LET ks == Max(3, stroke_width * 2 - 1)
    IN IF ks % 2 = 0 THEN ks + 1 ELSE ks

\* The full mask whatever the stroke.
FullMask(stroke_width, fill_mask, text_mask) == text_mask

\* tex_mask, is_mask and ig_mask of apply_advanced_effects
BoundaryMask(stroke_width, fill_mask, text_mask) ==
    IF stroke_width > 1 THEN fill_mask ELSE text_mask

\* apply_advanced_effects(frame_arr, text_mask_arr, stroke_width, ...), with
\* the options of cfg and the defaults for the rest; bump and soft stand
\* for what the blurs of the effects produce.
ApplyAdvancedEffects(frame_arr, text_mask, cfg, bump, soft) ==
    LET eroded == cfg.stroke_width > 1
        fill_mask == IF eroded
                     THEN MinFilter(text_mask, ErosionSize(cfg.stroke_width))
                     ELSE text_mask
        chrome(s) ==
           IF cfg.chrome_enabled
           THEN FxChrome(s, text_mask, fill_mask, eroded, 14, bump, soft)
           ELSE s
        gradient_overlay(s) ==
           IF cfg.gradient_overlay_enabled
           THEN Applied(s, "gradient_overlay", eroded, fill_mask,
                        FxGradientOverlay(s.img, fill_mask,
                                          GradientOverlayColors, 0, 13))
           ELSE s
        tex_mask == BoundaryMask(cfg.stroke_width, fill_mask, text_mask)
        texture(s) ==
           IF cfg.texture_enabled
           THEN Applied(s, "texture", eroded, tex_mask,
                        FxTexture(s.img, tex_mask, cfg.texture, 8, "overlay"))
           ELSE s
        bevel_emboss(s) ==
           IF cfg.bevel_emboss_enabled
           THEN Applied(s, "bevel_emboss", FALSE, text_mask,
                        FxBevelEmboss(s.img, text_mask, cfg.bevel_emboss_style,
                                      255, 0, 12, 12, bump, soft))
           ELSE s
        is_mask == BoundaryMask(cfg.stroke_width, fill_mask, text_mask)
        inner_shadow(s) ==
           IF cfg.inner_shadow_enabled
           THEN Applied(s, "inner_shadow", eroded, is_mask,
                        FxInnerShadow(s.img, is_mask, text_mask, 0, <<3, 3>>,
                                      5, 12, soft))
           ELSE s
        ig_mask == BoundaryMask(cfg.stroke_width, fill_mask, text_mask)
        inner_glow(s) ==
           IF cfg.inner_glow_enabled
           THEN Applied(s, "inner_glow", eroded, ig_mask,
                        FxInnerGlow(s.img, ig_mask, text_mask, 255, 6, 12,
                                    soft))
           ELSE s
    IN Only(Then(Then(Then(Then(Then(Then(
          {[img |-> frame_arr, log |-> <<>>]},
          chrome), gradient_overlay), texture), bevel_emboss), inner_shadow),
          inner_glow))

\* has_fx of create_word_fancytext_adv
HasFx(cfg) ==
    \/ cfg.inner_shadow_enabled \/ cfg.inner_glow_enabled
    \/ cfg.gradient_overlay_enabled \/ cfg.bevel_emboss_enabled
    \/ cfg.texture_enabled \/ cfg.chrome_enabled

\* A step 2 that runs the effects, chrome among them, on every variant.
AdvFrameChromed(frame, text_mask, cfg, bump, soft) ==
    ApplyAdvancedEffects(frame, text_mask,
                         [cfg EXCEPT !.chrome_enabled = TRUE], bump, soft)

\* Step 2 of create_word_fancytext_adv for one pre-rendered variant.
AdvFrame(frame, text_mask, cfg, bump, soft) ==
    IF HasFx(cfg) THEN ApplyAdvancedEffects(frame, text_mask, cfg, bump, soft)
    ELSE [img |-> frame, log |-> <<>>]

\* Largest stroke width.
MaxStroke == 2

\* Text masks: text in the first column only, and everywhere with a
\* half-covered first column.
FxMasks ==
    { [p \in FxCoords |-> IF p[1] = 0 THEN 255 ELSE 0],
      [p \in FxCoords |-> IF p[1] = 0 THEN 128 ELSE 255] }

\* What the blurs can produce: the bump map and the choice between the
\* least and the greatest value of a blurred image.
FxNoise ==
    { [bump |-> FxFilled(255), soft |-> FxFilled(0)],
      [bump |-> [p \in FxCoords |-> IF p[1] = 0 THEN 0 - 255 ELSE 60],
       soft |-> [p \in FxCoords |-> IF p[1] = 0 THEN 255 ELSE 100]] }
FxFrames ==
    { [p \in FxCoords |-> IF p[1] = 0 THEN Rgba(200, 255) ELSE Rgba(90, 128)] }

\* texture_image and texture_path as a caller can give them.
TextureSources ==
    { TextureSource(None, "none", None), TextureSource(None, "given", None),
      TextureSource(None, "given", 40), TextureSource(70, "given", 40) }

InitFx ==
    /\ composite = NoComposite
    /\ request = NoRequest
    /\ \E flags \in [{"inner_shadow", "inner_glow", "gradient_overlay",
                      "bevel_emboss", "texture", "chrome"} -> BOOLEAN],
          stroke_width \in {1, MaxStroke}, text_mask \in FxMasks,
          frame \in FxFrames :
          \E style \in (IF flags["bevel_emboss"]
                        THEN {"inner_bevel", "outer_bevel", "emboss"}
                        ELSE {"inner_bevel"}),
             texture \in (IF flags["texture"] THEN TextureSources
                          ELSE {TextureSource(None, "none", None)}) :
             call = [fn |-> "fx", via |-> "none",
                     cfg |-> [stroke_width |-> stroke_width,
                              inner_shadow_enabled |-> flags["inner_shadow"],
                              inner_glow_enabled |-> flags["inner_glow"],
                              gradient_overlay_enabled |-> flags["gradient_overlay"],
                              bevel_emboss_enabled |-> flags["bevel_emboss"],
                              bevel_emboss_style |-> style,
                              texture_enabled |-> flags["texture"],
                              texture |-> texture,
                              chrome_enabled |-> flags["chrome"]],
                     frame |-> frame, text_mask |-> text_mask,
                     noise |-> None, out |-> frame, log |-> <<>>]

FxDone(via, noise, st) ==
    /\ call' = [call EXCEPT !.via = via, !.noise = noise, !.out = st.img,
                            !.log = st.log]
    /\ UNCHANGED <<composite, request>>

\* apply_advanced_effects called on a frame
CallApplyAdvancedEffects ==
    /\ call.fn = "fx" /\ call.via = "none"
    /\ \E noise \in FxNoise :
          FxDone("apply_advanced_effects", noise,
                 ApplyAdvancedEffects(call.frame, call.text_mask, call.cfg,
                                      noise.bump, noise.soft))

\* create_word_fancytext_adv making the frame of one variant
CallCreateWordFancytextAdv ==
    /\ call.fn = "fx" /\ call.via = "none"
    /\ \E noise \in FxNoise :
          FxDone("create_word_fancytext_adv", noise,
                 AdvFrame(call.frame, call.text_mask, call.cfg, noise.bump,
                          noise.soft))

NextFx == CallApplyAdvancedEffects \/ CallCreateWordFancytextAdv

SpecFx == InitFx /\ [][NextFx]_vars

\* The effects in the order the claims give them, chrome as its two steps.
FxOrder ==
    <<"chrome_gradient", "chrome_bevel", "gradient_overlay", "texture",
      "bevel_emboss", "inner_shadow", "inner_glow">>

FxEnabled(cfg, fx) ==
    CASE fx \in {"chrome_gradient", "chrome_bevel"} -> cfg.chrome_enabled
      [] fx = "gradient_overlay" -> cfg.gradient_overlay_enabled
      [] fx = "texture" -> cfg.texture_enabled
      [] fx = "bevel_emboss" -> cfg.bevel_emboss_enabled
      [] fx = "inner_shadow" -> cfg.inner_shadow_enabled
      [] fx = "inner_glow" -> cfg.inner_glow_enabled

FxApplied == call.fn = "fx" /\ call.via # "none"

\* C13: the effects applied to a frame are the enabled ones, each once, in
\* the fixed order chrome (its gradient, then its bevel), gradient overlay,
\* texture, bevel/emboss, inner shadow, inner glow.
C13_FixedOrder ==
    FxApplied =>
       LET fxs == [k \in 1..Len(call.log) |-> call.log[k].fx]
           on(fx) == FxEnabled(call.cfg, fx)
       IN fxs = SelectSeq(FxOrder, on)

\* All six effects enabled and applied.
C13_Witness ==
    /\ FxApplied
    /\ \A k \in 1..Len(FxOrder) : FxEnabled(call.cfg, FxOrder[k])
    /\ Len(call.log) = Len(FxOrder)

\* C14: with no effect enabled apply_advanced_effects gives back the raster
\* it was given, and create_word_fancytext_adv the frames of the renderer
\* without effects.
C14_NoEffectNoChange ==
    FxApplied /\ ~HasFx(call.cfg) =>
       call.out = call.frame /\ call.log = <<>>

\* apply_advanced_effects was called with every flag off.
C14_Witness ==
    /\ FxApplied /\ ~HasFx(call.cfg)
    /\ call.via = "apply_advanced_effects"
    /\ call.out = call.frame

\* The text mask eroded by the stroke: the least value in the window of
\* max(3, 2 * stroke_width - 1) pixels around each pixel.
ErodedMask ==
    LET ks == Max(3, 2 * call.cfg.stroke_width - 1)
        near(p) == {q \in FxCoords :
                       /\ q[1] >= p[1] - (ks \div 2) /\ q[1] <= p[1] + (ks \div 2)
                       /\ q[2] >= p[2] - (ks \div 2) /\ q[2] <= p[2] + (ks \div 2)}
    IN [p \in FxCoords |->
          CHOOSE v \in 0..255 :
             /\ \E q \in near(p) : v = call.text_mask[q]
             /\ \A q \in near(p) : v <= call.text_mask[q]]

\* The mask an effect is to be given: the eroded one when the stroke is
\* wider than 1 and the effect is one of fxs, the full one otherwise.
MaskGiven(entry, fxs) ==
    entry.mask = IF call.cfg.stroke_width > 1 /\ entry.fx \in fxs
                 THEN ErodedMask ELSE call.text_mask

FxOutcome(cfg) ==
    ApplyAdvancedEffects(call.frame, call.text_mask, cfg, call.noise.bump,
                         call.noise.soft).img

\* No texture can be loaded: no image is given and either no path or a path
\* that cannot be opened.
NoTexture(texture) ==
    texture.image = None /\ (texture.path = "none" \/ texture.file = None)

\* C19: with texture enabled and no texture to load the frame is the one
\* the other enabled effects give without the texture step, which is still
\* called in its place; a texture image given is used whatever the path.
C19_TextureFailureSkipsStep ==
    FxApplied /\ call.cfg.texture_enabled =>
       /\ NoTexture(call.cfg.texture) =>
             /\ call.out = FxOutcome([call.cfg EXCEPT !.texture_enabled = FALSE])
             /\ \E k \in 1..Len(call.log) : call.log[k].fx = "texture"
       /\ call.cfg.texture.image # None =>
             call.out = FxOutcome([call.cfg EXCEPT
                                     !.texture = TextureSource(@.image, "none", None)])

\* A texture path that cannot be opened, with inner glow enabled after the
\* texture step and changing the frame.
C19_Witness ==
    /\ FxApplied /\ call.cfg.texture_enabled
    /\ call.cfg.texture = TextureSource(None, "given", None)
    /\ call.cfg.inner_glow_enabled
    /\ call.out # call.frame

\* ------------------------------------------------- the effects one by one

\* Largest width and height of a gradient.
MaxGradW == 4
MaxGradH == 1

\* An image with the value a in its first column and b in the others.
Columns(a, b) == [p \in FxCoords |-> IF p[1] = 0 THEN a ELSE b]

EffectMasks == {Columns(a, b) : a, b \in {0, 128, 255}}
EffectSofts == {Columns(a, b) : a, b \in {0, 255}} \cup {Columns(100, 0)}
EffectBumps == {Columns(a, b) : a, b \in {0 - 255, 60}}
EffectOpacities == {0, 12, 20}

\* Stop colours that the floats of the model hold exactly.
StopColors == {c \in {3, 7, 13, 240} : Representable(FromInt(c))}

InitEffect ==
    /\ composite = NoComposite
    /\ request = NoRequest
    /\ \E img \in FxFrames \cup {FxFilled(Rgba(10, 0))},
          text_mask \in EffectMasks :
          call = [fn |-> "effect", effect |-> "none", img |-> img,
                  text_mask |-> text_mask]

EffectDone(effect, result) ==
    /\ call' = [fn |-> "effect", effect |-> effect, img |-> call.img,
                text_mask |-> call.text_mask, result |-> result]
    /\ UNCHANGED <<composite, request>>

\* The masks a caller gives to inner shadow and inner glow for the stroke
\* width: the boundary mask, and the clip mask or, when it is left out, the
\* boundary mask in its place.
EdgeMasks(text_mask, stroke_width, clip_given) ==
    LET boundary == BoundaryMask(stroke_width,
                                 MinFilter(text_mask, ErosionSize(stroke_width)),
                                 text_mask)
    IN [text_mask |-> boundary,
        clip_mask |-> IF clip_given THEN text_mask ELSE boundary]

CallFxInnerShadow ==
    /\ call.fn = "effect" /\ call.effect = "none"
    /\ \E stroke_width \in {1, MaxStroke}, clip_given \in BOOLEAN,
          offset \in {<<1, 0>>, <<3, 3>>}, blur \in {0, 5},
          color \in {0, 255}, opacity \in EffectOpacities,
          soft \in EffectSofts :
          LET m == EdgeMasks(call.text_mask, stroke_width, clip_given)
          IN EffectDone("inner_shadow",
                [out |-> FxInnerShadow(call.img, m.text_mask, m.clip_mask,
                                       color, offset, blur, opacity, soft)])

CallFxInnerGlow ==
    /\ call.fn = "effect" /\ call.effect = "none"
    /\ \E stroke_width \in {1, MaxStroke}, clip_given \in BOOLEAN,
          size \in {0, 6}, color \in {0, 255}, opacity \in EffectOpacities,
          soft \in EffectSofts :
          LET m == EdgeMasks(call.text_mask, stroke_width, clip_given)
          IN EffectDone("inner_glow",
                [out |-> FxInnerGlow(call.img, m.text_mask, m.clip_mask,
                                     color, size, opacity, soft)])

CallFxBevelEmboss ==
    /\ call.fn = "effect" /\ call.effect = "none"
    /\ \E style \in {"inner_bevel", "outer_bevel", "emboss"},
          opacity \in EffectOpacities, bump \in EffectBumps,
          soft \in EffectSofts :
          EffectDone("bevel_emboss",
             [style |-> style,
              inten |-> BevelIntensity(call.text_mask, style, bump),
              out |-> FxBevelEmboss(call.img, call.text_mask, style, 255, 0,
                                    opacity, opacity, bump, soft)])

\* _fx_gradient_overlay with two equal stops, seen at one pixel p of an
\* image of any size up to MaxGradW x MaxGradH, whose mask and colour there
\* are those of the first or the last pixel of call.img.
CallFxGradientOverlay ==
    /\ call.fn = "effect" /\ call.effect = "none"
    /\ \E color \in StopColors, width \in 1..MaxGradW, height \in 1..MaxGradH,
          angle \in {0, 90}, opacity \in {12, 20} :
          \E p \in Coords(width, height),
             q \in {<<0, 0>>, <<FxW - 1, FxH - 1>>} :
             LET layer == GradientLayerPixel(p, width, height,
                                             call.text_mask[q],
                                             <<color, color>>, angle, opacity)
             IN EffectDone("gradient_overlay",
                   [color |-> color, mask_value |-> call.text_mask[q],
                    base |-> call.img[q], layer |-> layer,
                    out |-> CompositePixel(call.img[q], layer)])

NextEffect ==
    \/ CallFxInnerShadow
    \/ CallFxInnerGlow
    \/ CallFxBevelEmboss
    \/ CallFxGradientOverlay

SpecEffect == InitEffect /\ [][NextEffect]_vars

EffectApplied(effects) == call.fn = "effect" /\ call.effect \in effects

\* C16: inner shadow and inner glow leave every pixel as it was where the
\* full text mask is 0, whatever the offset, blur, size, colour, opacity and
\* stroke width.
C16_InnerEffectsStayInGlyph ==
    EffectApplied({"inner_shadow", "inner_glow"}) =>
       \A p \in FxCoords :
          call.text_mask[p] = 0 => call.result.out[p] = call.img[p]

\* An inner shadow that changed a pixel of the glyph next to a pixel
\* outside it.
C16_Witness ==
    /\ EffectApplied({"inner_shadow"})
    /\ \E p \in FxCoords : call.text_mask[p] = 0
    /\ \E p \in FxCoords : call.result.out[p] # call.img[p]

\* C17: inner_bevel leaves every pixel where the text mask is 0 as it was
\* and outer_bevel every pixel where it is 255; at every pixel the highlight
\* and shadow intensities before the blur are each in [0, 1] (0..255 in
\* 255ths) and never both positive.
C17_BevelConfinedByStyle ==
    EffectApplied({"bevel_emboss"}) =>
       \A p \in FxCoords :
          /\ call.result.style = "inner_bevel" /\ call.text_mask[p] = 0
                => call.result.out[p] = call.img[p]
          /\ call.result.style = "outer_bevel" /\ call.text_mask[p] = 255
                => call.result.out[p] = call.img[p]
          /\ call.result.inten[p].hi \in 0..255
          /\ call.result.inten[p].sh \in 0..255
          /\ ~(call.result.inten[p].hi > 0 /\ call.result.inten[p].sh > 0)

\* An inner bevel that lit a pixel of the glyph next to a pixel outside it.
C17_Witness ==
    /\ EffectApplied({"bevel_emboss"})
    /\ call.result.style = "inner_bevel"
    /\ \E p \in FxCoords : call.text_mask[p] = 0
    /\ \E p \in FxCoords :
          call.result.inten[p].hi > 0 /\ call.result.out[p] # call.img[p]

\* C18: with two equal colour stops the gradient layer has the stop colour
\* at every pixel where the mask is 255, and alpha 0 at every pixel where
\* the mask is 0, which the overlay then leaves as it was.
C18_EqualStopsGiveStopColour ==
    EffectApplied({"gradient_overlay"}) =>
       /\ call.result.mask_value = 255
             => call.result.layer.c = call.result.color
       /\ call.result.mask_value = 0
             => call.result.layer.a = 0 /\ call.result.out = call.result.base

\* ------------------------------------------------- the loading of fonts

\* _FALLBACK_FONTS
FallbackFonts == <<"Arial Bold", "Impact", "Arial", "DejaVu Sans Bold", "Helvetica">>

\* The font names a machine can hold a file for, and what the file is: not
\* there, a font, or a file that ImageFont.truetype cannot read.
FontNames == {FallbackFonts[k] : k \in 1..Len(FallbackFonts)} \cup {"Comic Neue"}
FileStates == {"absent", "font", "unreadable"}

\* The font argument: None, a family name, or a path to a file.
FontRequests ==
    {[kind |-> "none", name |-> "none", file |-> "absent"]}
       \cup {[kind |-> "name", name |-> n, file |-> "absent"] :
                n \in {"Impact", "Comic Neue"}}
       \cup {[kind |-> "path", name |-> "fonts/x.ttf", file |-> f] :
                f \in FileStates}

\* The None that _find_font_by_name returns for a name it cannot resolve.
NoFontPath == [path |-> "none", file |-> "absent"]

\* _find_font_by_name(name): the path of the file the name, one of its
\* aliases or a substring match resolves to, or None.
FindFontByName(name, files) ==
    IF files[name] = "absent" THEN NoFontPath
    ELSE [path |-> name, file |-> files[name]]

\* ImageFont.truetype(path, font_size)
Truetype(path) ==
    IF path.file = "font" THEN [font |-> path.path, error |-> "none"]
    ELSE [font |-> "none", error |-> "OSError"]

\* The loop of _load_font over _FALLBACK_FONTS from the k-th name on, ending
\* in ImageFont.load_default().
RECURSIVE FallbackLoop(_, _)
FallbackLoop(k, files) ==
    IF k > Len(FallbackFonts) THEN [font |-> "default", error |-> "none"]
    ELSE LET path == FindFontByName(FallbackFonts[k], files)
         IN IF path # NoFontPath /\ Truetype(path).error = "none"
            THEN Truetype(path)
            ELSE FallbackLoop(k + 1, files)

\* _load_font(font_size, font)
LoadFont(font, files) ==
    IF font.kind = "path"
    THEN Truetype([path |-> font.name, file |-> font.file])
    ELSE IF font.kind = "name"
    THEN LET path == FindFontByName(font.name, files)
         IN IF path # NoFontPath THEN Truetype(path)
            ELSE [font |-> "none", error |-> "ValueError"]
    ELSE FallbackLoop(1, files)

InitFont ==
    /\ composite = NoComposite
    /\ request = NoRequest
    /\ \E font \in FontRequests, files \in [FontNames -> FileStates] :
          call = [fn |-> "load_font", font |-> font, files |-> files,
                  done |-> FALSE, result |-> [font |-> "none", error |-> "none"]]

CallLoadFont ==
    /\ call.fn = "load_font" /\ ~call.done
    /\ call' = [call EXCEPT !.done = TRUE,
                            !.result = LoadFont(call.font, call.files)]
    /\ UNCHANGED <<composite, request>>

NextFont == CallLoadFont

SpecFont == InitFont /\ [][NextFont]_vars

\* C20: a font name that matches no font file is not fatal: loading falls
\* back to a default and returns a usable font, raising nothing.
C20_MissingFontFallsBack ==
    /\ call.fn = "load_font" /\ call.done
    /\ call.font.kind = "name" /\ call.files[call.font.name] = "absent"
    => call.result.error = "none" /\ call.result.font # "none"

\* ------------------------------------------------- the calls with a text

\* The font files of a machine: none, a font for every name, or an
\* unreadable file for every name.
FontMachines == {[n \in FontNames |-> f] : f \in {"absent", "font", "unreadable"}}

\* create_word_fancytext and create_word_fancytext_adv from their first
\* line: the font is loaded, then text.upper().split() gives the words
\* (none for an empty or whitespace-only text), then the clips are made.
\* The result is the list returned or the error raised.
CreateWordFancytextCall(words, font, files, duration, max_words_per_line, max_line_px) ==
    LET pil_font == LoadFont(font, files)
    IN IF pil_font.error # "none"
       THEN [error |-> pil_font.error, clips |-> <<>>]
       ELSE [error |-> "none",
             clips |-> CreateWordFancytext(words, duration, max_words_per_line,
                                           max_line_px)]

InitText ==
    /\ composite = NoComposite
    /\ request = NoRequest
    /\ \E n \in 0..MaxWords, wpx \in {1, MaxWordPx},
          max_words \in 1..MaxWordsPerLine,
          max_line_px \in {MaxWordPx, MaxLinePx}, d \in {1, MaxDuration},
          font \in FontRequests, files \in FontMachines :
          call = [fn |-> "text", via |-> "none",
                  words |-> [i \in 1..n |-> wpx], duration |-> FromInt(d),
                  max_words_per_line |-> max_words, max_line_px |-> max_line_px,
                  font |-> font, files |-> files,
                  result |-> [error |-> "none", clips |-> <<>>]]

TextDone(via) ==
    /\ call.fn = "text" /\ call.via = "none"
    /\ call' = [call EXCEPT
                  !.via = via,
                  !.result = CreateWordFancytextCall(
                                call.words, call.font, call.files,
                                call.duration, call.max_words_per_line,
                                call.max_line_px)]
    /\ UNCHANGED <<composite, request>>

CallCreateWordFancytext == TextDone("create_word_fancytext")

\* create_word_fancytext_adv, whose lines 341-355 and 436-438 are those of
\* create_word_fancytext.
CallCreateWordFancytextAdvText == TextDone("create_word_fancytext_adv")

NextText == CallCreateWordFancytext \/ CallCreateWordFancytextAdvText

SpecText == InitText /\ [][NextText]_vars

TextReturned == call.fn = "text" /\ call.via # "none"

\* C21: for a text of no words create_word_fancytext and
\* create_word_fancytext_adv return an empty list and raise nothing, whatever
\* the duration, the font and the sizes.
C21_NoWordsNoClips ==
    TextReturned /\ call.words = <<>> =>
       call.result.error = "none" /\ call.result.clips = <<>>

\* ------------------------------------------- the duration of a composite

\* Every clip of the list given to the constructor has its end set.
AllEndsSet(clips) == \A i \in 1..Len(clips) : clips[i].end # None

\* C22: when every clip of the list given to CompositeVideoClip has its end
\* set, the composite's duration (and end) is the greatest of those ends;
\* when a clip of the list has no end, the duration is left unset.
C22_DurationIsMaxEnd ==
    composite.error = "none" /\ composite.args.clips # <<>> =>
       composite.duration = IF AllEndsSet(composite.args.clips)
                            THEN MaxEnd(composite.args.clips) ELSE None

\* ------------------------------------------------ concatenate_videoclips

MaxConcat == 3
MaxPadding == 1
MaxConcatT == 4

\* The clips that are concatenated: still images of several sizes that last
\* 1, 2 and 0 seconds, one of them with a mask; and the transition clip.
ConcatPool ==
    { Layer(21, 1, 1, 0, 0, "const", "static", "none", 0, 1, 0),
      Layer(22, 2, 1, 0, 0, "const", "static", "static", 0, 2, 0),
      Layer(23, 1, 2, 0, 0, "const", "static", "none", 0, 0, 0) }

TransitionClip == Layer(24, 1, 1, 0, 0, "const", "static", "none", 0, 1, 0)

NoTransition == [id |-> 0]

ConcatLists == UNION {[1..n -> ConcatPool] : n \in 0..MaxConcat}

\* [[v, transition] for v in clips[:-1]] flattened, then clips[-1]
RECURSIVE Interleave(_, _)
Interleave(clips, transition) ==
    IF Len(clips) = 1 THEN clips
    ELSE <<clips[1], transition>> \o Interleave(Tail(clips), transition)

\* np.cumsum([0] + [clip.duration for clip in clips])[k], k from 0
RECURSIVE CumSum(_, _)
CumSum(clips, k) ==
    IF k = 0 THEN 0 ELSE CumSum(clips, k - 1) + (clips[k].end - clips[k].start)

\* The timings of lines 517 and 524-525; timings[k + 1] here is timings[k]
\* there, and the last one is the duration of the whole.
PaddedTimings(clips, padding) ==
    LET n == Len(clips)
        padded == [k \in 1..n + 1 |->
                     Max(0, CumSum(clips, k - 1) + padding * (k - 1))]
    IN [padded EXCEPT ![n + 1] = @ - padding]

\* clip.with_start(t).with_position("center") in a composite of size w x h
StartedCentered(clip, t, w, h) ==
    [clip EXCEPT !.start = t, !.end = t + (clip.end - clip.start),
                 !.x = (w - clip.w) \div 2, !.y = (h - clip.h) \div 2]

RECURSIVE MaxOver(_, _)
MaxOver(clips, field) ==
    IF Len(clips) = 1 THEN clips[1][field]
    ELSE Max(clips[1][field], MaxOver(Tail(clips), field))

ConcatRaised(exc) ==
    [error |-> exc, method |-> "none", clips |-> <<>>, timings |-> <<>>,
     start |-> None, duration |-> None, end |-> None,
     composite |-> NoComposite, mask_timings |-> <<>>]

\* concatenate_videoclips(clips, method, transition, bg_color, padding) with
\* is_mask=False.  The mask of a chain is the chain of the clips' masks,
\* concatenated with the default padding of 0.
ConcatenateVideoclips(clips0, method, transition, bg_color, padding) ==
    IF transition # NoTransition /\ Len(clips0) = 0
    THEN ConcatRaised("IndexError")
    ELSE IF transition # NoTransition /\ Len(clips0) = 1
    THEN ConcatRaised("TypeError")
    ELSE IF clips0 = <<>> THEN ConcatRaised("ValueError")
    ELSE
    LET clips == IF transition # NoTransition
                 THEN Interleave(clips0, transition) ELSE clips0
        w == MaxOver(clips, "w")
        h == MaxOver(clips, "h")
        timings == PaddedTimings(clips, padding)
        last == timings[Len(timings)]
    IN CASE method = "chain" ->
              [error |-> "none", method |-> "chain", clips |-> clips,
               timings |-> timings, start |-> 0, duration |-> last,
               end |-> last, composite |-> NoComposite,
               mask_timings |->
                  IF \E i \in 1..Len(clips) : clips[i].mask # "none"
                  THEN PaddedTimings(clips, 0) ELSE <<>>]
         [] method = "compose" ->
              [error |-> "none", method |-> "compose", clips |-> clips,
               timings |-> timings, start |-> 0, duration |-> last,
               end |-> last,
               composite |->
                  Construct([i \in 1..Len(clips) |->
                               StartedCentered(clips[i], timings[i], w, h)],
                            <<w, h>>, bg_color, FALSE),
               mask_timings |-> <<>>]
         [] OTHER -> ConcatRaised("Exception")

\* A frame_function that takes the last clip that started before t.
ChainFrameStrictlyBefore(result, t) ==
    LET hits == {k \in 1..Len(result.timings) : result.timings[k] < t}
    IN IF hits = {} THEN [error |-> "ValueError", i |-> None, ct |-> None]
       ELSE LET k == CHOOSE m \in hits : \A o \in hits : o <= m
            IN [error |-> "none", i |-> k - 1, ct |-> t - result.timings[k]]

\* The frame_function of a chain (lines 529-531): the clip index chosen at
\* t, from 0, and the time handed to that clip's get_frame.
ChainFrameFunction(result, t) ==
    LET hits == {k \in 1..Len(result.timings) : result.timings[k] <= t}
    IN IF hits = {} THEN [error |-> "ValueError", i |-> None, ct |-> None]
       ELSE LET k == CHOOSE m \in hits : \A o \in hits : o <= m
            IN IF k > Len(result.clips)
               THEN [error |-> "IndexError", i |-> k - 1, ct |-> None]
               ELSE [error |-> "none", i |-> k - 1,
                     ct |-> t - result.timings[k]]

NoChainFrame == [error |-> "unasked", i |-> None, ct |-> None]

InitConcat ==
    /\ composite = NoComposite
    /\ request = NoRequest
    /\ \E clips \in ConcatLists, method \in {"chain", "compose", "stack"},
          transition \in {NoTransition, TransitionClip},
          bg_color \in {None, 7}, padding \in (0 - MaxPadding)..MaxPadding :
          call = [fn |-> "concat", clips |-> clips, method |-> method,
                  transition |-> transition, padding |-> padding,
                  result |-> ConcatenateVideoclips(clips, method, transition,
                                                   bg_color, padding),
                  t |-> None, frame |-> NoChainFrame, image |-> NoImage]

\* result.get_frame(t) of a chain
ChainGetFrame(t) ==
    /\ call.fn = "concat" /\ call.result.method = "chain"
    /\ call' = [call EXCEPT !.t = t,
                            !.frame = ChainFrameFunction(call.result, t)]
    /\ UNCHANGED <<composite, request>>

\* result.get_frame(t) of a composition
ComposeGetFrame(t) ==
    /\ call.fn = "concat" /\ call.result.method = "compose"
    /\ call.result.composite.error = "none"
    /\ call' = [call EXCEPT !.t = t, !.frame = NoChainFrame,
                            !.image = FrameOf(call.result.composite, t).img]
    /\ UNCHANGED <<composite, request>>

NextConcat ==
    \/ \E t \in 0..MaxConcatT : ChainGetFrame(t)
    \/ \E t \in 0..MaxConcatT : ComposeGetFrame(t)

SpecConcat == InitConcat /\ [][NextConcat]_vars

Concatenated == call.fn = "concat" /\ call.result.error = "none"

\* C23: concatenate_videoclips with a padding other than 0 composes, whatever
\* the method argument: the result is a composite in which clip i starts at
\* the padded timing of clip i, also when method="chain" was passed.
C23_PaddingComposes ==
    Concatenated /\ call.padding # 0 =>
       /\ call.result.method = "compose"
       /\ call.result.composite.error = "none"
       /\ \A i \in 1..Len(call.result.clips) :
             \E j \in 1..Len(call.result.composite.clips) :
                /\ call.result.composite.clips[j].id = call.result.clips[i].id
                /\ call.result.composite.clips[j].start = call.result.timings[i]

\* A chain of the clips as given: no transition and no padding.
PlainChain ==
    /\ Concatenated /\ call.method = "chain"
    /\ call.padding = 0 /\ call.transition = NoTransition

\* The clip indices, from 0, whose interval of the timings holds t.
ClipsAt(t) ==
    {j \in 0..Len(call.clips) - 1 :
        call.result.timings[j + 1] <= t /\ t < call.result.timings[j + 2]}

\* C27: with method="chain" the result lasts the sum of the clips' durations,
\* its timings are the cumulative sums of the durations, and its frame at
\* every t in [0, duration) is the frame of clip i at t - timings[i], where
\* i is the one index with timings[i] <= t < timings[i+1], a valid clip
\* index.
C27_ChainPlaysClipsInTurn ==
    PlainChain =>
       /\ call.result.duration = CumSum(call.clips, Len(call.clips))
       /\ \A k \in 0..Len(call.clips) :
             call.result.timings[k + 1] = CumSum(call.clips, k)
       /\ call.t # None /\ call.t < call.result.duration =>
             /\ call.frame.error = "none"
             /\ call.frame.i \in 0..Len(call.clips) - 1
             /\ ClipsAt(call.t) = {call.frame.i}
             /\ call.frame.ct = call.t - call.result.timings[call.frame.i + 1]

\* A frame of the third clip of a chain was asked for, behind a clip that
\* lasts no time.
C27_Witness ==
    /\ PlainChain
    /\ call.t # None /\ call.t < call.result.duration
    /\ call.frame.i = 2
    /\ call.clips[2].end = 0
    /\ call.frame.ct > 0

\* ------------------------------------------- the render loop of a line

\* The frame of a line in which word hi, from 0, is drawn in the highlight
\* colour and the others in the text colour (lines 1157-1175), and its
\* text-only mask.
HighlightVariant(words, hi) ==
    [words |-> words,
     style |-> [i \in 1..Len(words) |->
                  IF i - 1 = hi THEN "highlight" ELSE "normal"]]

TextOnlyMask(words, hi) == [words |-> words, of |-> hi]

\* line_cache = {}
EmptyCache == [built |-> FALSE, np_frames |-> <<>>, text_only_masks |-> <<>>]

\* A renderer without the fast path: every call builds the frames anew.
RenderWithoutFastPath(words, highlight_index, cache) ==
    LET n == Len(words)
        np_frames == [h \in 1..n |-> HighlightVariant(words, h - 1)]
    IN [ret |-> np_frames[Max(0, highlight_index) + 1],
        cache |-> [built |-> TRUE, np_frames |-> np_frames,
                   text_only_masks |->
                      [h \in 1..n |-> TextOnlyMask(words, h - 1)]],
        built |-> 1]

\* _render_fancytext_frame(words, ..., highlight_index, _base_cache=cache):
\* the frame returned, the cache as the call leaves it, and the number of
\* times the frames of the line were built (0 on the fast path).
RenderFancytextFrame(words, highlight_index, cache) ==
    IF cache.built
    THEN [ret |-> cache.np_frames[Max(0, highlight_index) + 1],
          cache |-> cache, built |-> 0]
    ELSE LET n == Len(words)
             np_frames == [h \in 1..n |-> HighlightVariant(words, h - 1)]
         IN [ret |-> np_frames[Max(0, highlight_index) + 1],
             cache |-> [built |-> TRUE, np_frames |-> np_frames,
                        text_only_masks |->
                           [h \in 1..n |-> TextOnlyMask(words, h - 1)]],
             built |-> 1]

\* The words of the lines by their index in the text, from 1.
RECURSIVE WordsBefore(_, _)
WordsBefore(lines, k) ==
    IF k = 1 THEN 0 ELSE WordsBefore(lines, k - 1) + Len(lines[k - 1])

NumberedLines(lines) ==
    [k \in 1..Len(lines) |->
        [i \in 1..Len(lines[k]) |-> WordsBefore(lines, k) + i]]

NoRenderCall == [hi |-> None, before |-> EmptyCache]

\* The loop over the lines of create_word_fancytext (lines 121-150): li is
\* the line in hand (0 before the first), frames the frames returned for it.
InitRender ==
    /\ composite = NoComposite
    /\ request = NoRequest
    /\ \E n \in 1..MaxWords, wpx \in {1, MaxWordPx},
          max_words \in 1..MaxWordsPerLine, max_width_px \in 1..MaxLinePx :
          call = [fn |-> "render",
                  words |-> [i \in 1..n |-> wpx],
                  max_words_per_line |-> max_words,
                  max_line_px |-> max_width_px,
                  lines |-> NumberedLines(
                               GroupWordsIntoLines([i \in 1..n |-> wpx],
                                                   max_words,
                                                   max_width_px).lines),
                  li |-> 0, line_cache |-> EmptyCache, frames |-> <<>>,
                  built |-> 0, last |-> NoRenderCall]

\* for line_words in lines: line_cache = {}; frames = []
BeginLine ==
    /\ call.fn = "render"
    /\ call.li < Len(call.lines)
    /\ IF call.li = 0 THEN TRUE
       ELSE Len(call.frames) = Len(call.lines[call.li])
    /\ call' = [call EXCEPT !.li = @ + 1, !.line_cache = EmptyCache,
                            !.frames = <<>>, !.built = 0,
                            !.last = NoRenderCall]
    /\ UNCHANGED <<composite, request>>

\* for hi in range(n_words_in_line): frames.append(_render_fancytext_frame(
\*    line_words, ..., highlight_index=hi, _base_cache=line_cache))
RenderNextFrame ==
    /\ call.fn = "render" /\ call.li >= 1
    /\ Len(call.frames) < Len(call.lines[call.li])
    /\ LET hi == Len(call.frames)
           out == RenderFancytextFrame(call.lines[call.li], hi,
                                       call.line_cache)
       IN call' = [call EXCEPT
                     !.line_cache = out.cache,
                     !.frames = Append(@, out.ret),
                     !.built = @ + out.built,
                     !.last = [hi |-> hi, before |-> call.line_cache]]
    /\ UNCHANGED <<composite, request>>

NextRender == BeginLine \/ RenderNextFrame

SpecRender == InitRender /\ [][NextRender]_vars

Rendering == call.fn = "render" /\ call.li >= 1 /\ call.frames # <<>>

\* C25: in the render loop of a line the first call of
\* _render_fancytext_frame builds the N highlight variants and the N
\* text-only masks of the line and stores them in the line's cache; every
\* later call leaves the cache as it was, builds nothing, and the call with
\* highlight_index h returns the stored variant in which exactly word h is
\* highlighted; the cache holds frames of this line only.
C25_LineCacheBuiltOnce ==
    Rendering =>
       LET words == call.lines[call.li]
           N == Len(words)
       IN /\ call.line_cache.built
          /\ Len(call.line_cache.np_frames) = N
          /\ Len(call.line_cache.text_only_masks) = N
          /\ \A h \in 1..N :
                /\ call.line_cache.np_frames[h].words = words
                /\ call.line_cache.text_only_masks[h].words = words
                /\ \A i \in 1..N :
                      call.line_cache.np_frames[h].style[i] = "highlight"
                         <=> i = h
          /\ call.built = 1
          /\ call.last.before.built => call.line_cache = call.last.before
          /\ ~call.last.before.built => call.last.hi = 0
          /\ \A k \in 1..Len(call.frames) :
                call.frames[k] = call.line_cache.np_frames[k]

\* The last frame of a second line of two words has been returned from the
\* cache.
C25_Witness ==
    /\ Rendering
    /\ call.li = 2
    /\ Len(call.frames) = 2
    /\ call.last.before.built

\* ------------------------------------------------ the precomputed blits

\* C26: every layer that has precomputed blit data has immutable content
\* and mask, and at every time t at which it plays the per-frame fallback
\* (new_blit_on at t) gives the frame, the mask and the position that the
\* precomputed entry was made from, so both blits write the same pixels.
C26_PrecomputedBlitIsFallbackBlit ==
    composite.error = "none" =>
       \A i \in DOMAIN composite.clip_blit_pil :
          LET clip == composite.clips[i]
              entry == composite.clip_blit_pil[i]
              made == NewBlitOn(clip, clip.start, composite.size[1],
                                composite.size[2])
          IN /\ clip.content # "dynamic" /\ clip.mask # "dynamic"
             /\ \A t \in Times :
                   IsPlaying(clip, t) =>
                      LET now == NewBlitOn(clip, t, composite.size[1],
                                           composite.size[2])
                      IN /\ now.pos = <<entry.x, entry.y>>
                         /\ now.img = made.img
                         /\ now.mask = made.mask

\* ------------------------------------------------------------- close()

MaxCloses == 3

\* self.bg = None
NoBg == [ref |-> "none", id |-> 0]

\* What close() looks at, as the constructor leaves it (lines 88-97 and
\* 109-112): the background is the first clip of the list with use_bgclip
\* and a ColorClip of the composite's own otherwise; the audio is a
\* CompositeAudioClip when a layer has audio.  has_audio[i] says whether
\* clip i has.  bg_closes and audio_closes count the close() calls received
\* by the background and by the composite's audio.
ConstructForClose(clips, has_audio, use_bgclip) ==
    LET layers == IF use_bgclip THEN 2..Len(clips) ELSE 1..Len(clips)
    IN [fn |-> "close", clips |-> clips, has_audio |-> has_audio,
        use_bgclip |-> use_bgclip,
        bg |-> IF use_bgclip THEN [ref |-> "clip", id |-> clips[1].id]
               ELSE [ref |-> "color", id |-> 0],
        created_bg |-> ~use_bgclip,
        audio |-> IF \E i \in layers : has_audio[i]
                  THEN "composite_audio" ELSE "none",
        bg_closes |-> 0, audio_closes |-> 0, calls |-> 0, error |-> "none"]

\* A close() that keeps its references.
CloseKeepingReferences(self) ==
    [self EXCEPT
       !.bg_closes = IF self.created_bg /\ self.bg # NoBg THEN @ + 1 ELSE @,
       !.audio_closes = IF self.audio # "none" THEN @ + 1 ELSE @]

\* CompositeVideoClip.close()
CompositeClose(self) ==
    LET closed_bg == IF self.created_bg /\ self.bg # NoBg
                     THEN [self EXCEPT !.bg_closes = @ + 1, !.bg = NoBg]
                     ELSE self
    IN IF closed_bg.audio # "none"
       THEN [closed_bg EXCEPT !.audio_closes = @ + 1, !.audio = "none"]
       ELSE closed_bg

InitClose ==
    /\ composite = NoComposite
    /\ request = NoRequest
    /\ \E n \in 1..MaxLayers :
          \E clips \in [1..n -> LayerPool], has_audio \in [1..n -> BOOLEAN],
             use_bgclip \in BOOLEAN :
             /\ use_bgclip => n > 1
             /\ call = ConstructForClose(clips, has_audio, use_bgclip)

Close ==
    /\ call.fn = "close"
    /\ call.calls < MaxCloses
    /\ call' = [CompositeClose(call) EXCEPT !.calls = @ + 1]
    /\ UNCHANGED <<composite, request>>

NextClose == Close

SpecClose == InitClose /\ [][NextClose]_vars

\* The composite had audio when it was built.
BuiltWithAudio ==
    \E i \in 1..Len(call.clips) :
       call.has_audio[i] /\ (call.use_bgclip => i > 1)

\* C28: close() closes the background only when the composite made it
\* itself; the background given with use_bgclip is never closed and stays
\* referenced.  After a close() the composite references neither the closed
\* background nor its audio, so however many close() calls follow, each was
\* closed once, and no call raises.  (With use_bgclip and one clip the
\* constructor raises and there is nothing to close.)
C28_CloseOnceAndOnlyOwnBackground ==
    call.fn = "close" =>
       /\ call.error = "none"
       /\ call.use_bgclip =>
             call.bg_closes = 0 /\ call.bg = [ref |-> "clip",
                                              id |-> call.clips[1].id]
       /\ ~call.use_bgclip /\ call.calls >= 1 =>
             call.bg_closes = 1 /\ call.bg = NoBg
       /\ call.calls >= 1 =>
             /\ call.audio = "none"
             /\ call.audio_closes = IF BuiltWithAudio THEN 1 ELSE 0

\* close() was called MaxCloses times on a composite that made its own
\* background and had audio.
C28_Witness ==
    /\ call.fn = "close"
    /\ call.calls = MaxCloses
    /\ ~call.use_bgclip
    /\ call.bg_closes = 1 /\ call.audio_closes = 1

\* -------------------------------------------------- _wrap_text_by_chars

MaxWordChars == 3
MaxChars == 5

\* len(" ".join(ws)) for words given by their numbers of characters
RECURSIVE JoinedLen(_)
JoinedLen(ws) ==
    IF ws = <<>> THEN 0
    ELSE IF Len(ws) = 1 THEN ws[1]
    ELSE ws[1] + 1 + JoinedLen(Tail(ws))

\* The body of the loop of _wrap_text_by_chars for one word.  A line is the
\* words that were joined into it; the line of no words is the string "".
WrapStep(st, word, max_chars) ==
    LET current == Append(st.current, word)
    IN IF JoinedLen(current) > max_chars
       THEN [lines |-> Append(st.lines, SubSeq(current, 1, Len(current) - 1)),
             current |-> <<word>>]
       ELSE [lines |-> st.lines, current |-> current]

RECURSIVE WrapLoop(_, _, _)
WrapLoop(st, words, max_chars) ==
    IF words = <<>> THEN st
    ELSE WrapLoop(WrapStep(st, Head(words), max_chars), Tail(words), max_chars)

\* _wrap_text_by_chars(text, max_chars), words being text.split()
WrapTextByChars(words, max_chars) ==
    LET st == WrapLoop([lines |-> <<>>, current |-> <<>>], words, max_chars)
    IN IF st.current # <<>> THEN Append(st.lines, st.current) ELSE st.lines

InitWrap ==
    /\ composite = NoComposite
    /\ request = NoRequest
    /\ \E n \in 0..MaxWords :
          \E words \in [1..n -> 1..MaxWordChars], max_chars \in 1..MaxChars :
             call = [fn |-> "wrap", words |-> words, max_chars |-> max_chars,
                     done |-> FALSE, lines |-> <<>>]

CallWrapTextByChars ==
    /\ call.fn = "wrap" /\ ~call.done
    /\ call' = [call EXCEPT !.done = TRUE,
                            !.lines = WrapTextByChars(call.words,
                                                      call.max_chars)]
    /\ UNCHANGED <<composite, request>>

NextWrap == CallWrapTextByChars

SpecWrap == InitWrap /\ [][NextWrap]_vars

\* C29: every line returned by _wrap_text_by_chars is non-empty and has at
\* most max_chars characters, and the lines joined give back the words of
\* the text in order.
C29_WrappedLinesFit ==
    call.fn = "wrap" /\ call.done =>
       /\ \A k \in 1..Len(call.lines) :
             /\ call.lines[k] # <<>>
             /\ JoinedLen(call.lines[k]) <= call.max_chars
       /\ Concat(call.lines) = call.words

\* ------------------------------------------- the width of packed lines

\* C30: in the lines returned by _group_words_into_lines every line of two
\* or more words measures at most the pixel-width budget; only a line of a
\* single word can be wider.
C30_OnlyLoneWordOverBudget ==
    call.fn = "lines" /\ call.done =>
       \A k \in 1..Len(call.lines) :
          Len(call.lines[k]) >= 2 =>
             TextWidth(call.lines[k]) <= call.max_width_px

\* A packing in which the width budget closed a line of two words or more
\* and a single word wider than the budget got a line of its own.
C30_Witness ==
    /\ call.fn = "lines" /\ call.done
    /\ call.width_breaks >= 1
    /\ \E k \in 1..Len(call.lines) :
          Len(call.lines[k]) = 1 /\ TextWidth(call.lines[k]) > call.max_width_px
    /\ \E k \in 1..Len(call.lines) :
          /\ Len(call.lines[k]) >= 2 /\ k < Len(call.lines)
          /\ Len(call.lines[k]) < call.max_words

\* ------------------------------------------- the clips of a word text

\* The call returned its list of clips.
ClipsReturned == TextReturned /\ call.result.error = "none"

\* Every clip of the list has its start, duration, position and mask set.
ClipsAreSet ==
    \A k \in 1..Len(call.result.clips) :
       LET clip == call.result.clips[k]
       IN /\ clip.start # None /\ clip.duration # None
          /\ clip.position # NoPosition
          /\ clip.mask # NoMaskClip
          /\ clip.mask.start = clip.start
          /\ clip.mask.duration = clip.duration

====
